---- MODULE Spec2Model ----
(***************************************************************************)
(* Verification model of the serving core of proxy-inference-engine:       *)
(*   - PageAllocator (lock-free Treiber free list with per-page ref       *)
(*     counts), src/pie_core/src/engine/page_allocator.cpp                 *)
(*   - the shared-memory request ring (RequestWriter / RequestReader /     *)
(*     IPCReader), src/pie_core/src/ipc                                    *)
(*   - the response path (Scheduler::process_batch_output, the             *)
(*     postprocessing queue, ResponsePostprocessor, ResponseWriter,        *)
(*     ResponseReader)                                                     *)
(* Each subsystem has its own specification over the shared variable set;  *)
(* a specification leaves the variables of the other subsystems unchanged. *)
(***************************************************************************)
EXTENDS Integers, Naturals, Sequences, FiniteSets, TLC

(***************************************************************************)
(* Bounds of the model                                                     *)
(***************************************************************************)
NumPages == 3
NumThreads == 2
\* threads that free and re-allocate pages in the contention test
NumChurnThreads == 3
\* allocate_page calls of the concurrent phase of the contention test
MaxChurnAllocs == 2
\* allocate_page calls in one run of the shared-page test
MaxSharedAllocs == 2
MaxRef == 2
\* add_ref calls made in one run
MaxAddRefCalls == 1
\* allocate_page calls started in one run
MaxAllocCalls == 4
\* allocate_page calls started in one run of calls that do not overlap
MaxSeqAllocCalls == 5
\* allocate_page calls started in one run that also makes calls with page
\* ids the caller does not hold
MaxApiAllocCalls == 2
\* get_page calls and calls with a page id the caller does not hold, per run
MaxApiCalls == 1
\* page ids beyond the pool that callers pass: size() .. size() + ExtraPageIds - 1
ExtraPageIds == 2
\* width of the modelled uint32 ref_count_ (page.hpp:98), scaled down from
\* 2^32: the counter wraps from 0 to RefModulus - 1
RefModulus == 65536
\* slots of a shared-memory ring: REQUEST_QUEUE_NUM_SLOTS (ipc_request.hpp:42)
\* and RESPONSE_QUEUE_NUM_SLOTS (ipc_response.hpp:33), both 1024, scaled down
NumSlots == 2
\* producer threads submitting to the request ring
NumWriters == 2
\* submit_request_to_engine calls started in one run
MaxSubmits == 4
\* max_spins of the producers (1000000 in the source), scaled down: a
\* producer gives up at its (MaxSpins + 1)-th failed CAS
MaxSpins == 1
\* capacity of the RawRequest queue (spsc_queue capacity<1024>), scaled down
RawQueueCap == 1
\* prompt reads that fail in one run
MaxReadFailures == 1
\* requests that reach the preprocessor in one run
NumRequests == 3
\* stop_criteria.max_generated_tokens of every request
MaxGenTokens == 2
\* capacity of the postprocessing queue (spsc_queue capacity<1024>), scaled down
PPQueueCap == 1
\* capacity of the Sequence queue (spsc_queue capacity<1024>), scaled down
SeqQueueCap == 1
\* max_num_seqs_ of the scheduler
MaxNumSeqs == 1
\* TOKEN_CAPACITY_PER_PAGE (page.hpp:14, 64 in the source), scaled down
TokenCapacityPerPage == 2
\* requests that reach the preprocessor in a run that allocates pages
NumPagedRequests == 2
\* allocate_pages_for_sequence calls made in one run
MaxSchedAllocCalls == 3
\* cancelled flags set in one run
MaxCancels == 1

\* MAX_TOKENS_PER_DELTA (16 in the code)
MaxTokensPerDelta == 2
\* MAX_CONTENT_BYTES
MaxContentBytes == 3
\* deltas taken from the postprocessor to the client in one run
MaxDeltas == 2
\* length of the prefill and of the decode id list given to build_batch_details
MaxBatchIds == 2
\* batches built in one run
MaxBatches == 1
\* Sequence objects the preprocessor makes in a run of the ingest model
MaxIngestSeqs == 3
\* sequence ids the clients choose from
NumSeqIds == 2
\* max_num_seqs of the ingest model
IngestMaxNumSeqs == 2
\* capacity of the Sequence queue in the ingest model
IngestQueueCap == 2
\* size_t wraps at this value (2^64 in the code)
SizeModulus == 65536
Pages == 0 .. (NumPages - 1)
Threads == 1 .. NumThreads
\* the threads of the contention test
ChurnThreads == 1 .. NumChurnThreads
\* every thread that has a place in the per-thread variables
AllThreads == Threads \cup ChurnThreads
\* the uint32 values passed as page_id
PageIds == 0 .. (NumPages + ExtraPageIds - 1)
\* nullptr of FreeNode*
NoNode == -1

Slots == 0 .. (NumSlots - 1)
Writers == 1 .. NumWriters
\* request_id values handed to submit_request_to_engine, one per call
ReqIds == 1 .. MaxSubmits
\* request_id field of a slot that was never written
NoReq == 0
\* request ids on the response path
Requests == 1 .. NumRequests
\* the two threads that call ResponseWriter::write_delta
ResponseWriters == {"scheduler", "postprocessor"}
\* the threads Engine::run_blocking starts (engine.cpp lines 117-119)
Workers == {"reader", "preprocessor", "scheduler"}
\* no call recorded yet
NoCall == [op |-> "none", page_id |-> NoNode, result |-> "none"]
\* a zero-initialised ResponseDeltaSlot
NoDelta == [request_id |-> 0, token_index |-> 0, is_final_delta |-> FALSE, finish_reason |-> "STOP"]

VARIABLES
    \* ---- PageAllocator ----
    ref_count,        \* page_pool_[p].ref_count_
    next,             \* node_pool_[p].next
    head,             \* head_
    num_free_pages_,  \* num_free_pages_
    tpc,              \* per thread: position inside allocate_page / free_page
    t_cur,            \* pop_free_list: current_head
    t_nxt,            \* pop_free_list: value read from current_head->next
    t_node,           \* push_free_list: node being pushed
    t_old,            \* push_free_list: old_head
    held,             \* references each thread holds on each page
    alloc_calls,      \* allocate_page calls started so far
    addref_calls,     \* add_ref calls made so far
    owners,           \* per page: allocate_page returns since its node was last pushed
    page_hist,        \* per page, for its current allocation: references handed out, threads that called free_page
    free_log,         \* pages pushed by free_page and not handed out since, oldest first
    last_call,        \* the latest call that returned nullopt, threw, or was made with a page id the caller does not hold
    api_calls,        \* get_page calls and calls with a page id the caller does not hold, so far
    \* ---- request ring ----
    request_producer_idx,  \* request_queue_control_->producer_idx
    request_consumer_idx,  \* request_queue_control_->consumer_idx
    request_state,         \* request_slots_[s].state
    request_id,            \* request_slots_[s].request_id (the payload)
    w_pc,                  \* per producer: position inside submit_request_to_engine
    w_ticket,              \* per producer: producer_ticket
    w_spin,                \* per producer: spin_count
    w_req,                 \* per producer: request_id argument of the call
    submits,               \* submit_request_to_engine calls started so far
    r_pc,                  \* reader: position inside process_incoming_requests
    r_prod,                \* reader: prod / producer_idx_snapshot
    r_cons,                \* reader: cons / current_consumer_idx
    raw_request_queue_,    \* RawRequest queue between reader and preprocessor
    read_failures,         \* prompt reads that have failed so far
    rq_tickets,            \* fetch_add calls on producer_idx so far
    rq_timeouts,           \* submissions that ended in the timeout error
    rq_outcome,            \* per request_id: what has happened to the submission
    rq_reads,              \* per request_id: times the reader took it from a slot
    \* ---- response path ----
    seq_status,                 \* Sequence::status per request ("NONE": no Sequence)
    pre_outcome,                \* per request: what the preprocessor did with it
    generation_len,             \* Sequence::get_generation_len()
    processed_sequence_queue_,  \* Sequence queue, preprocessor -> scheduler
    running_sequences_,         \* Scheduler::running_sequences_ (keys)
    postprocessing_queue_,      \* scheduler -> postprocessor
    response_producer_idx,      \* response_queue_control_->producer_idx
    response_consumer_idx,      \* response_queue_control_->consumer_idx
    response_state,             \* response_slots_[s].state
    response_delta,             \* response_slots_[s] payload
    rw_pc,                      \* per writer thread: position inside write_delta
    rw_ticket,                  \* per writer thread: producer_ticket
    rw_spin,                    \* per writer thread: spin_count
    rw_delta,                   \* per writer thread: the delta being written
    c_pc,                       \* client: position inside consume_next_delta
    c_cons,                     \* client: cons_idx
    client_log,                 \* per request: the deltas the client has read, in order
    rs_tickets,                 \* fetch_add calls on the response producer_idx so far
    rs_timeouts,                \* write_delta calls that ended in the timeout error
    \* ---- scheduler: pages, cancellation ----
    page_table,                 \* Sequence::page_table per request
    cancelled,                  \* Sequence::cancelled per request
    alloc_result,               \* the last allocate_pages_for_sequence call: its sequence, its result, the sequence's length
    sched_alloc_calls,          \* allocate_pages_for_sequence calls made so far
    cancel_calls,               \* cancelled flags set so far
    stale_frees,                \* free_page calls the scheduler made on a page with ref_count 0
    stop_sampled,               \* the token sampled last was one of the sequence's stop_token_ids
    sched_state,                \* scheduler thread: "running", "stopped" (run_loop left, destructor done) or "aborted"
    \* ---- engine life cycle: run_blocking, stop, the worker loops ----
    g_shutdown_requested,       \* the flag the signal handler sets (main.cpp)
    engine_pc,                  \* position of the main thread in run_blocking / stop
    stop_flag_,                 \* stop_flag_ of each worker component
    worker_pc,                  \* position of each worker thread in its run_loop
    kernel_event,               \* a user event is pending on the kqueue
    sched_spin,                 \* spins of the scheduler's write_delta in progress
    at_stop,                    \* per worker: where it was when its stop_flag_ was set
    \* ---- one delta from the postprocessor to the client ----
    pp_delta,                   \* the ResponseDeltaSlot the postprocessor built
    shm_slot,                   \* payload of the response slot the delta goes through
    out_delta,                  \* the client's out_delta
    copy_pc,                    \* how far the delta has come
    copy_calls,                 \* deltas built so far
    \* ---- one batch step ----
    batch_details,              \* the BatchDetails of the step
    batch_i,                    \* process_batch_output: loop index
    current_token_offset,       \* process_batch_output: current_token_offset
    logit_index,                \* process_batch_output: logit_index of the latest row read
    batch_pc,                   \* how far the step has come
    batch_calls,                \* batches built so far
    \* ---- ingest by sequence_id ----
    incoming_sequence_queue_,   \* Scheduler::incoming_sequence_queue_: Sequence objects, oldest first
    running_by_id,              \* running_sequences_: per sequence_id the Sequence object stored, or none
    obj_sequence_id,            \* per Sequence object: its sequence_id
    obj_status,                 \* per Sequence object: its status
    ingest_popped,              \* Sequence objects popped by ingest_new_sequences so far
    ingest_destroyed            \* Sequence objects destroyed inside ingest_new_sequences

poolVars == <<ref_count, next, head, num_free_pages_, tpc, t_cur, t_nxt, t_node, t_old, held, alloc_calls, addref_calls, owners, page_hist, free_log, last_call, api_calls>>

ringVars == <<request_producer_idx, request_consumer_idx, request_state, request_id, w_pc, w_ticket, w_spin, w_req, submits, r_pc, r_prod, r_cons, raw_request_queue_, read_failures, rq_tickets, rq_timeouts, rq_outcome, rq_reads>>

respVars == <<seq_status, pre_outcome, generation_len, processed_sequence_queue_, running_sequences_, postprocessing_queue_, response_producer_idx, response_consumer_idx, response_state, response_delta, rw_pc, rw_ticket, rw_spin, rw_delta, c_pc, c_cons, client_log, rs_tickets, rs_timeouts>>

lifeVars == <<g_shutdown_requested, engine_pc, stop_flag_, worker_pc, kernel_event, sched_spin, at_stop>>

pageVars == <<page_table, cancelled, alloc_result, sched_alloc_calls, cancel_calls, stale_frees, stop_sampled, sched_state>>

schedVars == <<pageVars, lifeVars>>

copyVars == <<pp_delta, shm_slot, out_delta, copy_pc, copy_calls>>

batchVars == <<batch_details, batch_i, current_token_offset, logit_index, batch_pc, batch_calls>>

ingestVars == <<incoming_sequence_queue_, running_by_id, obj_sequence_id, obj_status, ingest_popped, ingest_destroyed>>

calcVars == <<copyVars, batchVars, ingestVars>>

vars == <<poolVars, ringVars, respVars, schedVars, calcVars>>

(***************************************************************************)
(* PageAllocator                                                           *)
(***************************************************************************)
\* State after the constructor: every ref_count 0, node i linked to node
\* i+1, the last to nullptr, head at node 0, free counter N.
PoolInit ==
    /\ ref_count = [p \in Pages |-> 0]
    /\ next = [p \in Pages |-> IF p < NumPages - 1 THEN p + 1 ELSE NoNode]
    /\ head = 0
    /\ num_free_pages_ = NumPages
    /\ tpc = [t \in AllThreads |-> "idle"]
    /\ t_cur = [t \in AllThreads |-> NoNode]
    /\ t_nxt = [t \in AllThreads |-> NoNode]
    /\ t_node = [t \in AllThreads |-> NoNode]
    /\ t_old = [t \in AllThreads |-> NoNode]
    /\ held = [t \in AllThreads |-> [p \in Pages |-> 0]]
    /\ alloc_calls = 0
    /\ addref_calls = 0
    /\ owners = [p \in Pages |-> 0]
    /\ page_hist = [p \in Pages |-> [refs |-> 0, freers |-> {}, after_shared |-> FALSE]]
    /\ free_log = <<>>
    /\ last_call = NoCall
    /\ api_calls = 0

\* KVPage::add_ref : fetch_add(1) on a uint32
add_ref(rc) == (rc + 1) % RefModulus

\* KVPage::dec_ref : fetch_sub(1) on a uint32 (wraps below 0)
dec_ref(rc) == (rc - 1 + RefModulus) % RefModulus

\* pop_free_list, line 213: current_head = head_.load()
PopLoad(t) ==
    /\ tpc[t] = "idle"
    /\ alloc_calls' = alloc_calls + 1
    /\ t_cur' = [t_cur EXCEPT ![t] = head]
    /\ tpc' = [tpc EXCEPT ![t] = "pop_read"]
    /\ UNCHANGED <<ref_count, next, head, num_free_pages_, t_nxt, t_node, t_old, held, addref_calls, owners, page_hist, free_log, last_call, api_calls>>
    /\ UNCHANGED <<ringVars, respVars, schedVars>>
    /\ UNCHANGED calcVars

\* PopRead that decrements the free counter also when the stack is empty
PopReadAlwaysCounts(t) ==
    /\ tpc[t] = "pop_read"
    /\ IF t_cur[t] = NoNode
         THEN /\ tpc' = [tpc EXCEPT ![t] = "idle"]
              /\ last_call' = [op |-> "allocate_page", page_id |-> NoNode, result |-> "nullopt"]
              /\ num_free_pages_' = num_free_pages_ - 1
              /\ UNCHANGED t_nxt
         ELSE /\ t_nxt' = [t_nxt EXCEPT ![t] = next[t_cur[t]]]
              /\ tpc' = [tpc EXCEPT ![t] = "pop_cas"]
              /\ UNCHANGED <<last_call, num_free_pages_>>
    /\ UNCHANGED <<ref_count, next, head, t_cur, t_node, t_old, held, alloc_calls, addref_calls, owners, page_hist, free_log, api_calls>>
    /\ UNCHANGED <<ringVars, respVars, schedVars>>
    /\ UNCHANGED calcVars

\* pop_free_list, lines 216/219: loop test current_head != nullptr, then the
\* read of current_head->next that is passed to the CAS.  With an empty
\* stack pop returns nullptr and allocate_page returns nullopt (lines 87-91).
PopRead(t) ==
    /\ tpc[t] = "pop_read"
    /\ IF t_cur[t] = NoNode
         THEN /\ tpc' = [tpc EXCEPT ![t] = "idle"]
              /\ last_call' = [op |-> "allocate_page", page_id |-> NoNode, result |-> "nullopt"]
              /\ UNCHANGED t_nxt
         ELSE /\ t_nxt' = [t_nxt EXCEPT ![t] = next[t_cur[t]]]
              /\ tpc' = [tpc EXCEPT ![t] = "pop_cas"]
              /\ UNCHANGED last_call
    /\ UNCHANGED <<ref_count, next, head, num_free_pages_, t_cur, t_node, t_old, held, alloc_calls, addref_calls, owners, page_hist, free_log, api_calls>>
    /\ UNCHANGED <<ringVars, respVars, schedVars>>
    /\ UNCHANGED calcVars

\* PopCas whose failure leaves current_head as it was
PopCasKeepsExpected(t) ==
    /\ tpc[t] = "pop_cas"
    /\ \E spurious \in BOOLEAN :
         IF head = t_cur[t] /\ ~spurious
           THEN /\ head' = t_nxt[t]
                /\ tpc' = [tpc EXCEPT ![t] = "pop_dec"]
                /\ UNCHANGED t_cur
           ELSE /\ tpc' = [tpc EXCEPT ![t] = "pop_read"]
                /\ UNCHANGED <<head, t_cur>>
    /\ UNCHANGED <<ref_count, next, num_free_pages_, t_nxt, t_node, t_old, held, alloc_calls, addref_calls, owners, page_hist, free_log, last_call, api_calls>>
    /\ UNCHANGED <<ringVars, respVars, schedVars>>
    /\ UNCHANGED calcVars

\* pop_free_list, lines 217-222: head_.compare_exchange_weak(current_head,
\* next).  On failure current_head is reloaded with the value of head_;
\* a weak CAS may also fail although head_ = current_head.
PopCas(t) ==
    /\ tpc[t] = "pop_cas"
    /\ \E spurious \in BOOLEAN :
         IF head = t_cur[t] /\ ~spurious
           THEN /\ head' = t_nxt[t]
                /\ tpc' = [tpc EXCEPT ![t] = "pop_dec"]
                /\ UNCHANGED t_cur
           ELSE /\ t_cur' = [t_cur EXCEPT ![t] = head]
                /\ tpc' = [tpc EXCEPT ![t] = "pop_read"]
                /\ UNCHANGED head
    /\ UNCHANGED <<ref_count, next, num_free_pages_, t_nxt, t_node, t_old, held, alloc_calls, addref_calls, owners, page_hist, free_log, last_call, api_calls>>
    /\ UNCHANGED <<ringVars, respVars, schedVars>>
    /\ UNCHANGED calcVars

\* PopDec without the counter update
PopDecNoCount(t) ==
    /\ tpc[t] = "pop_dec"
    /\ tpc' = [tpc EXCEPT ![t] = "alloc_store"]
    /\ UNCHANGED <<ref_count, next, head, num_free_pages_, t_cur, t_nxt, t_node, t_old, held, alloc_calls, addref_calls, owners, page_hist, free_log, last_call, api_calls>>
    /\ UNCHANGED <<ringVars, respVars, schedVars>>
    /\ UNCHANGED calcVars

\* pop_free_list, line 233: num_free_pages_.fetch_sub(1)
PopDec(t) ==
    /\ tpc[t] = "pop_dec"
    /\ num_free_pages_' = num_free_pages_ - 1
    /\ tpc' = [tpc EXCEPT ![t] = "alloc_store"]
    /\ UNCHANGED <<ref_count, next, head, t_cur, t_nxt, t_node, t_old, held, alloc_calls, addref_calls, owners, page_hist, free_log, last_call, api_calls>>
    /\ UNCHANGED <<ringVars, respVars, schedVars>>
    /\ UNCHANGED calcVars

\* allocate_page, line 95: ref_count_.store(1)
AllocStore(t) ==
    /\ tpc[t] = "alloc_store"
    /\ ref_count' = [ref_count EXCEPT ![t_cur[t]] = 1]
    /\ tpc' = [tpc EXCEPT ![t] = "alloc_ret"]
    /\ UNCHANGED <<next, head, num_free_pages_, t_cur, t_nxt, t_node, t_old, held, alloc_calls, addref_calls, owners, page_hist, free_log, last_call, api_calls>>
    /\ UNCHANGED <<ringVars, respVars, schedVars>>
    /\ UNCHANGED calcVars

\* allocate_page, lines 97-101: return page_id to the caller, who now holds
\* one reference on it.
AllocReturn(t) ==
    /\ tpc[t] = "alloc_ret"
    /\ held' = [held EXCEPT ![t][t_cur[t]] = @ + 1]
    /\ owners' = [owners EXCEPT ![t_cur[t]] = @ + 1]
    /\ page_hist' = [page_hist EXCEPT ![t_cur[t]] =
                       [refs |-> 1, freers |-> {},
                        after_shared |-> @.refs >= 2 /\ Cardinality(@.freers) >= 2]]
    /\ free_log' = IF free_log = <<>> THEN <<>> ELSE SubSeq(free_log, 1, Len(free_log) - 1)
    /\ tpc' = [tpc EXCEPT ![t] = "idle"]
    /\ UNCHANGED <<ref_count, next, head, num_free_pages_, t_cur, t_nxt, t_node, t_old, alloc_calls, addref_calls, last_call, api_calls>>
    /\ UNCHANGED <<ringVars, respVars, schedVars>>
    /\ UNCHANGED calcVars

\* PageAllocator::add_ref on a page the caller holds
AddRef(t, p) ==
    /\ tpc[t] = "idle"
    /\ held[t][p] > 0
    /\ ref_count[p] < MaxRef
    /\ addref_calls < MaxAddRefCalls
    /\ addref_calls' = addref_calls + 1
    /\ ref_count' = [ref_count EXCEPT ![p] = add_ref(@)]
    /\ held' = [held EXCEPT ![t][p] = @ + 1]
    /\ page_hist' = [page_hist EXCEPT ![p].refs = @ + 1]
    /\ UNCHANGED <<next, head, num_free_pages_, tpc, t_cur, t_nxt, t_node, t_old, alloc_calls, owners, free_log, last_call, api_calls>>
    /\ UNCHANGED <<ringVars, respVars, schedVars>>
    /\ UNCHANGED calcVars

\* free_page that pushes the node whatever the new count is
FreeDecAlwaysPush(t, p) ==
    /\ tpc[t] = "idle"
    /\ held[t][p] > 0
    /\ ref_count' = [ref_count EXCEPT ![p] = dec_ref(@)]
    /\ held' = [held EXCEPT ![t][p] = @ - 1]
    /\ page_hist' = [page_hist EXCEPT ![p].freers = @ \cup {t}]
    /\ t_node' = [t_node EXCEPT ![t] = p]
    /\ tpc' = [tpc EXCEPT ![t] = "push_load"]
    /\ UNCHANGED <<next, head, num_free_pages_, t_cur, t_nxt, t_old, alloc_calls, addref_calls, owners, free_log, last_call, api_calls>>
    /\ UNCHANGED <<ringVars, respVars, schedVars>>
    /\ UNCHANGED calcVars

\* free_page, lines 106-120: dec_ref, and a push when the new count is 0
FreeDec(t, p) ==
    /\ tpc[t] = "idle"
    /\ held[t][p] > 0
    /\ ref_count' = [ref_count EXCEPT ![p] = dec_ref(@)]
    /\ held' = [held EXCEPT ![t][p] = @ - 1]
    /\ page_hist' = [page_hist EXCEPT ![p].freers = @ \cup {t}]
    /\ IF dec_ref(ref_count[p]) = 0
         THEN /\ t_node' = [t_node EXCEPT ![t] = p]
              /\ tpc' = [tpc EXCEPT ![t] = "push_load"]
         ELSE /\ UNCHANGED <<t_node, tpc>>
    /\ UNCHANGED <<next, head, num_free_pages_, t_cur, t_nxt, t_old, alloc_calls, addref_calls, owners, free_log, last_call, api_calls>>
    /\ UNCHANGED <<ringVars, respVars, schedVars>>
    /\ UNCHANGED calcVars

\* push_free_list, line 187: old_head = head_.load()
PushLoad(t) ==
    /\ tpc[t] = "push_load"
    /\ t_old' = [t_old EXCEPT ![t] = head]
    /\ tpc' = [tpc EXCEPT ![t] = "push_link"]
    /\ UNCHANGED <<ref_count, next, head, num_free_pages_, t_cur, t_nxt, t_node, held, alloc_calls, addref_calls, owners, page_hist, free_log, last_call, api_calls>>
    /\ UNCHANGED <<ringVars, respVars, schedVars>>
    /\ UNCHANGED calcVars

\* push_free_list, line 190: node->next = old_head
PushLink(t) ==
    /\ tpc[t] = "push_link"
    /\ next' = [next EXCEPT ![t_node[t]] = t_old[t]]
    /\ tpc' = [tpc EXCEPT ![t] = "push_cas"]
    /\ UNCHANGED <<ref_count, head, num_free_pages_, t_cur, t_nxt, t_node, t_old, held, alloc_calls, addref_calls, owners, page_hist, free_log, last_call, api_calls>>
    /\ UNCHANGED <<ringVars, respVars, schedVars>>
    /\ UNCHANGED calcVars

\* PushCas that links the node below the head node of a non-empty stack
PushCasBelowHead(t) ==
    /\ tpc[t] = "push_cas"
    /\ \E spurious \in BOOLEAN :
         IF head = t_old[t] /\ ~spurious
           THEN /\ IF head = NoNode
                     THEN head' = t_node[t] /\ UNCHANGED next
                     ELSE /\ next' = [next EXCEPT ![t_node[t]] = next[head], ![head] = t_node[t]]
                          /\ UNCHANGED head
                /\ owners' = [owners EXCEPT ![t_node[t]] = 0]
                /\ free_log' = Append(free_log, t_node[t])
                /\ tpc' = [tpc EXCEPT ![t] = "push_inc"]
                /\ UNCHANGED t_old
           ELSE /\ t_old' = [t_old EXCEPT ![t] = head]
                /\ tpc' = [tpc EXCEPT ![t] = "push_link"]
                /\ UNCHANGED <<head, next, owners, free_log>>
    /\ UNCHANGED <<ref_count, num_free_pages_, t_cur, t_nxt, t_node, held, alloc_calls, addref_calls, page_hist, last_call, api_calls>>
    /\ UNCHANGED <<ringVars, respVars, schedVars>>
    /\ UNCHANGED calcVars

\* push_free_list, lines 196-201: head_.compare_exchange_weak(old_head, node)
PushCas(t) ==
    /\ tpc[t] = "push_cas"
    /\ \E spurious \in BOOLEAN :
         IF head = t_old[t] /\ ~spurious
           THEN /\ head' = t_node[t]
                /\ owners' = [owners EXCEPT ![t_node[t]] = 0]
                /\ free_log' = Append(free_log, t_node[t])
                /\ tpc' = [tpc EXCEPT ![t] = "push_inc"]
                /\ UNCHANGED t_old
           ELSE /\ t_old' = [t_old EXCEPT ![t] = head]
                /\ tpc' = [tpc EXCEPT ![t] = "push_link"]
                /\ UNCHANGED <<head, owners, free_log>>
    /\ UNCHANGED <<ref_count, next, num_free_pages_, t_cur, t_nxt, t_node, held, alloc_calls, addref_calls, page_hist, last_call, api_calls>>
    /\ UNCHANGED <<ringVars, respVars, schedVars>>
    /\ UNCHANGED calcVars

\* PushInc without the counter update
PushIncNoCount(t) ==
    /\ tpc[t] = "push_inc"
    /\ tpc' = [tpc EXCEPT ![t] = "idle"]
    /\ UNCHANGED <<ref_count, next, head, num_free_pages_, t_cur, t_nxt, t_node, t_old, held, alloc_calls, addref_calls, owners, page_hist, free_log, last_call, api_calls>>
    /\ UNCHANGED <<ringVars, respVars, schedVars>>
    /\ UNCHANGED calcVars

\* push_free_list, line 203: num_free_pages_.fetch_add(1)
PushInc(t) ==
    /\ tpc[t] = "push_inc"
    /\ num_free_pages_' = num_free_pages_ + 1
    /\ tpc' = [tpc EXCEPT ![t] = "idle"]
    /\ UNCHANGED <<ref_count, next, head, t_cur, t_nxt, t_node, t_old, held, alloc_calls, addref_calls, owners, page_hist, free_log, last_call, api_calls>>
    /\ UNCHANGED <<ringVars, respVars, schedVars>>
    /\ UNCHANGED calcVars

\* One step of thread t inside or at the start of an allocator call, in a
\* run of at most max_calls allocate_page calls
PoolStep(t, max_calls) ==
    \/ alloc_calls < max_calls /\ PopLoad(t)
    \/ PopRead(t)
    \/ PopCas(t)
    \/ PopDec(t)
    \/ AllocStore(t)
    \/ AllocReturn(t)
    \/ \E p \in Pages : AddRef(t, p)
    \/ \E p \in Pages : FreeDec(t, p)
    \/ PushLoad(t)
    \/ PushLink(t)
    \/ PushCas(t)
    \/ PushInc(t)

\* Any number of threads call the allocator concurrently
PoolNext == \E t \in Threads : PoolStep(t, MaxAllocCalls)

\* Calls do not overlap: a thread takes a step only while every other
\* thread is outside the allocator (single-threaded use)
PoolSeqNext == \E t \in Threads : (\A u \in Threads \ {t} : tpc[u] = "idle") /\ PoolStep(t, MaxSeqAllocCalls)

\* thread t is inside allocate_page
InAllocate(t) == tpc[t] \in {"pop_read", "pop_cas", "pop_dec", "alloc_store", "alloc_ret"}

\* thread t passes one of its references on page p to thread u (the
\* threads of ConcurrentFreeSharedPage each free one reference of the page
\* the main thread allocated and add_ref'ed)
HandOver(t, u, p) ==
    /\ t # u
    /\ tpc[t] = "idle"
    /\ held[t][p] > 0
    /\ held' = [held EXCEPT ![t][p] = @ - 1, ![u][p] = @ + 1]
    /\ UNCHANGED <<ref_count, next, head, num_free_pages_, tpc, t_cur, t_nxt, t_node, t_old, alloc_calls, addref_calls, owners, page_hist, free_log, last_call, api_calls>>
    /\ UNCHANGED <<ringVars, respVars, schedVars>>
    /\ UNCHANGED calcVars

\* check_page_id with the boundary id accepted
check_page_id_above(page_id) == page_id > NumPages

\* PageAllocator::check_page_id, lines 169-178: TRUE when it throws
\* std::out_of_range
check_page_id(page_id) == page_id >= NumPages

\* PageAllocator::get_page, const and non-const (lines 139-159): throws for
\* an id out of range, returns a reference to the page otherwise
GetPage(t, page_id) ==
    /\ tpc[t] = "idle"
    /\ api_calls < MaxApiCalls
    /\ api_calls' = api_calls + 1
    /\ \E op \in {"get_page", "get_page_const"} :
         last_call' = [op |-> op, page_id |-> page_id,
                       result |-> IF check_page_id(page_id) THEN "out_of_range" ELSE "ok"]
    /\ UNCHANGED <<ref_count, next, head, num_free_pages_, tpc, t_cur, t_nxt, t_node, t_old, held, alloc_calls, addref_calls, owners, page_hist, free_log>>
    /\ UNCHANGED <<ringVars, respVars, schedVars>>
    /\ UNCHANGED calcVars

\* PageAllocator::free_page (lines 104-125) called with an id that is out
\* of range or with the id of a page whose ref_count is 0 (double release).
\* Out of range: check_page_id throws before anything is touched.  On a
\* free page: built with assertions, dec_ref aborts the process (page.hpp
\* lines 66-68); built with NDEBUG, fetch_sub wraps the uint32 and free_page
\* returns normally, pushing the node only if the new count is 0.
FreePageUnheld(t, page_id) ==
    /\ tpc[t] = "idle"
    /\ api_calls < MaxApiCalls
    /\ page_id \in Pages => ref_count[page_id] = 0
    /\ api_calls' = api_calls + 1
    /\ IF check_page_id(page_id)
         THEN /\ last_call' = [op |-> "free_page", page_id |-> page_id, result |-> "out_of_range"]
              /\ UNCHANGED <<ref_count, t_node, tpc>>
         ELSE /\ page_id \in Pages
              /\ \E assertions \in BOOLEAN :
                   IF assertions
                     THEN /\ last_call' = [op |-> "free_page", page_id |-> page_id, result |-> "abort"]
                          /\ UNCHANGED <<ref_count, t_node, tpc>>
                     ELSE /\ last_call' = [op |-> "free_page", page_id |-> page_id, result |-> "ok"]
                          /\ ref_count' = [ref_count EXCEPT ![page_id] = dec_ref(@)]
                          /\ IF dec_ref(ref_count[page_id]) = 0
                               THEN /\ t_node' = [t_node EXCEPT ![t] = page_id]
                                    /\ tpc' = [tpc EXCEPT ![t] = "push_load"]
                               ELSE UNCHANGED <<t_node, tpc>>
    /\ UNCHANGED <<next, head, num_free_pages_, t_cur, t_nxt, t_old, held, alloc_calls, addref_calls, owners, page_hist, free_log>>
    /\ UNCHANGED <<ringVars, respVars, schedVars>>
    /\ UNCHANGED calcVars

\* PageAllocator::add_ref (lines 127-137) called with an id that is out of
\* range or with the id of a page whose ref_count is 0.  On a free page:
\* built with assertions, KVPage::add_ref aborts (page.hpp lines 57-59);
\* built with NDEBUG, fetch_add makes the count 1 and the caller holds a
\* reference on a page whose node is still on the free stack.
AddRefUnheld(t, page_id) ==
    /\ tpc[t] = "idle"
    /\ api_calls < MaxApiCalls
    /\ page_id \in Pages => ref_count[page_id] = 0
    /\ api_calls' = api_calls + 1
    /\ IF check_page_id(page_id)
         THEN /\ last_call' = [op |-> "add_ref", page_id |-> page_id, result |-> "out_of_range"]
              /\ UNCHANGED <<ref_count, held>>
         ELSE /\ page_id \in Pages
              /\ \E assertions \in BOOLEAN :
                   IF assertions
                     THEN /\ last_call' = [op |-> "add_ref", page_id |-> page_id, result |-> "abort"]
                          /\ UNCHANGED <<ref_count, held>>
                     ELSE /\ last_call' = [op |-> "add_ref", page_id |-> page_id, result |-> "ok"]
                          /\ ref_count' = [ref_count EXCEPT ![page_id] = add_ref(@)]
                          /\ held' = [held EXCEPT ![t][page_id] = @ + 1]
    /\ UNCHANGED <<next, head, num_free_pages_, tpc, t_cur, t_nxt, t_node, t_old, alloc_calls, addref_calls, owners, page_hist, free_log>>
    /\ UNCHANGED <<ringVars, respVars, schedVars>>
    /\ UNCHANGED calcVars

\* Calls that do not overlap, made by callers that also pass page ids they
\* do not hold; nothing runs after an assertion has aborted the process
PoolApiNext ==
    /\ last_call.result # "abort"
    /\ \E t \in Threads :
         /\ \A u \in Threads \ {t} : tpc[u] = "idle"
         /\ \/ PoolStep(t, MaxApiAllocCalls)
            \/ \E page_id \in PageIds : GetPage(t, page_id)
            \/ \E page_id \in PageIds : FreePageUnheld(t, page_id)
            \/ \E page_id \in PageIds : AddRefUnheld(t, page_id)

\* Shared pages: allocate_page and add_ref run while no other call is in
\* progress (the set-up of the test), references are handed to other
\* threads, and the free_page calls of the threads overlap each other
SharedFreeNext ==
    \/ \E t \in Threads : alloc_calls < MaxSharedAllocs /\ (\A u \in Threads : tpc[u] = "idle") /\ PopLoad(t)
    \/ \E t \in Threads : PopRead(t)
    \/ \E t \in Threads : PopCas(t)
    \/ \E t \in Threads : PopDec(t)
    \/ \E t \in Threads : AllocStore(t)
    \/ \E t \in Threads : AllocReturn(t)
    \/ \E t \in Threads, p \in Pages : (\A u \in Threads : tpc[u] = "idle") /\ AddRef(t, p)
    \/ \E t, u \in Threads, p \in Pages : (\A v \in Threads : tpc[v] = "idle") /\ HandOver(t, u, p)
    \/ \E t \in Threads, p \in Pages : (\A u \in Threads : ~InAllocate(u)) /\ FreeDec(t, p)
    \/ \E t \in Threads : PushLoad(t)
    \/ \E t \in Threads : PushLink(t)
    \/ \E t \in Threads : PushCas(t)
    \/ \E t \in Threads : PushInc(t)

\* thread t holds no page
HoldsNothing(t) == \A p \in Pages : held[t][p] = 0

\* HighContentionPushPopStress after its initial allocation phase (lines
\* 408-421), here with one page per thread: the pages were taken from the
\* head of the free list one after the other, thread i holds page i - 1,
\* the rest of the list is free.  alloc_calls counts the allocate_page
\* calls of the concurrent phase.
ChurnPoolInit ==
    /\ ref_count = [p \in Pages |-> IF p < NumChurnThreads THEN 1 ELSE 0]
    /\ next = [p \in Pages |-> IF p < NumPages - 1 THEN p + 1 ELSE NoNode]
    /\ head = IF NumChurnThreads < NumPages THEN NumChurnThreads ELSE NoNode
    /\ num_free_pages_ = IF NumChurnThreads < NumPages THEN NumPages - NumChurnThreads ELSE 0
    /\ tpc = [t \in AllThreads |-> "idle"]
    /\ t_cur = [t \in AllThreads |-> NoNode]
    /\ t_nxt = [t \in AllThreads |-> NoNode]
    /\ t_node = [t \in AllThreads |-> NoNode]
    /\ t_old = [t \in AllThreads |-> NoNode]
    /\ held = [t \in AllThreads |-> [p \in Pages |-> IF t \in ChurnThreads /\ p = t - 1 THEN 1 ELSE 0]]
    /\ alloc_calls = 0
    /\ addref_calls = 0
    /\ owners = [p \in Pages |-> IF p < NumChurnThreads THEN 1 ELSE 0]
    /\ page_hist = [p \in Pages |-> [refs |-> IF p < NumChurnThreads THEN 1 ELSE 0, freers |-> {}, after_shared |-> FALSE]]
    /\ free_log = <<>>
    /\ last_call = NoCall
    /\ api_calls = 0

\* HighContentionPushPopStress, lines 427-465: each thread frees the page
\* it holds and then calls allocate_page for a replacement (again when the
\* pool was empty), all threads at the same time; a thread that stops, or
\* the final cleanup of lines 479-496, leaves pages freed and not replaced
ChurnNext ==
    \/ \E t \in ChurnThreads : alloc_calls < MaxChurnAllocs /\ HoldsNothing(t) /\ PopLoad(t)
    \/ \E t \in ChurnThreads : PopRead(t)
    \/ \E t \in ChurnThreads : PopCas(t)
    \/ \E t \in ChurnThreads : PopDec(t)
    \/ \E t \in ChurnThreads : AllocStore(t)
    \/ \E t \in ChurnThreads : AllocReturn(t)
    \/ \E t \in ChurnThreads, p \in Pages : FreeDec(t, p)
    \/ \E t \in ChurnThreads : PushLoad(t)
    \/ \E t \in ChurnThreads : PushLink(t)
    \/ \E t \in ChurnThreads : PushCas(t)
    \/ \E t \in ChurnThreads : PushInc(t)

(***************************************************************************)
(* Helpers for the page-pool properties                                    *)
(***************************************************************************)
\* no allocate_page, add_ref or free_page in progress
Quiescent == \A t \in AllThreads : tpc[t] = "idle"

\* nodes reachable from head_ by following next at most NumPages times
RECURSIVE ReachFrom(_, _)
ReachFrom(n, k) ==
    IF n = NoNode \/ k = 0 THEN {} ELSE {n} \cup ReachFrom(next[n], k - 1)

OnFreeStack == ReachFrom(head, NumPages)

InUsePages == {p \in Pages : ref_count[p] > 0}

RECURSIVE SumRef(_)
SumRef(S) ==
    IF S = {} THEN 0
    ELSE LET p == CHOOSE q \in S : TRUE IN ref_count[p] + SumRef(S \ {p})

(***************************************************************************)
(* The allocator as the scheduler thread uses it: one caller, so that      *)
(* allocate_page and free_page run from start to end without overlap       *)
(***************************************************************************)
\* the allocator's shared state as one value
PoolState ==
    [ref_count |-> ref_count, next |-> next, head |-> head,
     num_free_pages_ |-> num_free_pages_, stale_frees |-> stale_frees]

\* PageAllocator::allocate_page, lines 85-102, without overlap: pop the head
\* node, decrement the free counter, store ref_count 1; NoNode (nullopt)
\* when the stack is empty
allocate_page(P) ==
    IF P.head = NoNode
      THEN [pool |-> P, page |-> NoNode]
      ELSE [pool |-> [P EXCEPT !.head = P.next[P.head],
                               !.num_free_pages_ = P.num_free_pages_ - 1,
                               !.ref_count[P.head] = 1],
            page |-> P.head]

\* PageAllocator::free_page, lines 104-125, without overlap: dec_ref, and
\* when the new count is 0 push the node and increment the free counter.
\* A call on a page whose ref_count is already 0 is counted in stale_frees
\* (the uint32 wraps; with assertions compiled in, dec_ref aborts instead).
free_page(P, p) ==
    LET rc == dec_ref(P.ref_count[p])
        Q  == [P EXCEPT !.ref_count[p] = rc,
                        !.stale_frees = IF P.ref_count[p] = 0 THEN @ + 1 ELSE @]
    IN  IF rc = 0
          THEN [Q EXCEPT !.next[p] = P.head,
                         !.head = p,
                         !.num_free_pages_ = P.num_free_pages_ + 1]
          ELSE Q

\* free_page for every page of a list, first to last
\* (scheduler.cpp lines 325-329 and 647-662)
RECURSIVE FreePages(_, _)
FreePages(P, pages) ==
    IF pages = <<>> THEN P ELSE FreePages(free_page(P, Head(pages)), Tail(pages))

\* Sequence::get_logical_len : tokens.size() = prompt tokens + generated
\* tokens.  The prompt length is the caller's input to the Sequence
\* constructor: one token for every request but the last, whose prompt
\* needs one page more than the pool has.
PromptLen(q) == IF q = NumPagedRequests THEN NumPages * TokenCapacityPerPage + 1 ELSE 1

get_logical_len(q) == PromptLen(q) + generation_len[q]

\* required_blocks computed as len / TOKEN_CAPACITY_PER_PAGE + 1
RequiredBlocksPlusOne(len) == len \div TokenCapacityPerPage + 1

\* allocate_pages_for_sequence, line 297: ceil(len / TOKEN_CAPACITY_PER_PAGE)
RequiredBlocks(len) == (len + TokenCapacityPerPage - 1) \div TokenCapacityPerPage

\* allocate_pages_for_sequence, lines 318-345: the allocation loop for n
\* more pages.  Every page obtained is appended to newly_allocated_pages
\* and to the sequence's page_table (lines 335, 339).  When allocate_page
\* returns nullopt the pages of newly_allocated_pages are freed and the
\* call returns false (lines 325-331); the page_table is left as it is.
RECURSIVE AllocLoop(_, _, _, _)
AllocLoop(P, table, newly_allocated_pages, n) ==
    IF n = 0
      THEN [pool |-> P, table |-> table, ok |-> TRUE]
      ELSE LET r == allocate_page(P)
           IN  IF r.page = NoNode
                 THEN [pool |-> FreePages(P, newly_allocated_pages), table |-> table, ok |-> FALSE]
                 ELSE AllocLoop(r.pool, Append(table, r.page), Append(newly_allocated_pages, r.page), n - 1)

\* the page ids returned by n allocate_page calls in a row, made without
\* overlap from pool state P (NoNode for a call that returns nullopt)
RECURSIVE AllocateN(_, _)
AllocateN(P, n) ==
    IF n = 0 THEN <<>>
    ELSE LET r == allocate_page(P) IN <<r.page>> \o AllocateN(r.pool, n - 1)

\* the pages of a page_table, as a set
TablePages(table) == {table[i] : i \in 1 .. Len(table)}

(***************************************************************************)
(* Request ring: RequestWriter / IPCProducer (producers), RequestReader    *)
(* and the older IPCReader (consumers), RawRequest queue                   *)
(***************************************************************************)
\* State of the request segment after creation (zero-filled: every slot
\* FREE, both indices 0), no call in progress, RawRequest queue empty.
RingInit ==
    /\ request_producer_idx = 0
    /\ request_consumer_idx = 0
    /\ request_state = [s \in Slots |-> "FREE"]
    /\ request_id = [s \in Slots |-> NoReq]
    /\ w_pc = [w \in Writers |-> "idle"]
    /\ w_ticket = [w \in Writers |-> 0]
    /\ w_spin = [w \in Writers |-> 0]
    /\ w_req = [w \in Writers |-> NoReq]
    /\ submits = 0
    /\ r_pc = "idle"
    /\ r_prod = 0
    /\ r_cons = 0
    /\ raw_request_queue_ = <<>>
    /\ read_failures = 0
    /\ rq_tickets = 0
    /\ rq_timeouts = 0
    /\ rq_outcome = [q \in ReqIds |-> "none"]
    /\ rq_reads = [q \in ReqIds |-> 0]

\* slot_idx = index % REQUEST_QUEUE_NUM_SLOTS
SlotOf(idx) == idx % NumSlots

\* submit_request_to_engine, lines 225-230: the ticket is taken with
\* producer_idx.fetch_add(1) before the slot is known to be free;
\* spin_count = 0.  (IPCProducer lines 118-125 are the same.)
SubmitTicket(w) ==
    /\ w_pc[w] = "idle"
    /\ submits < MaxSubmits
    /\ submits' = submits + 1
    /\ w_req' = [w_req EXCEPT ![w] = submits + 1]
    /\ w_ticket' = [w_ticket EXCEPT ![w] = request_producer_idx]
    /\ request_producer_idx' = request_producer_idx + 1
    /\ rq_tickets' = rq_tickets + 1
    /\ w_spin' = [w_spin EXCEPT ![w] = 0]
    /\ w_pc' = [w_pc EXCEPT ![w] = "wait"]
    /\ rq_outcome' = [rq_outcome EXCEPT ![submits + 1] = "waiting"]
    /\ UNCHANGED <<request_consumer_idx, request_state, request_id, r_pc, r_prod, r_cons, raw_request_queue_, read_failures, rq_timeouts, rq_reads>>
    /\ UNCHANGED <<poolVars, respVars, schedVars>>
    /\ UNCHANGED calcVars

\* SubmitCas that takes the slot, whatever its state, once max_spins is passed
SubmitCasTakesSlot(w) ==
    /\ w_pc[w] = "wait"
    /\ IF request_state[SlotOf(w_ticket[w])] = "FREE" \/ w_spin[w] + 1 > MaxSpins
         THEN /\ request_state' = [request_state EXCEPT ![SlotOf(w_ticket[w])] = "WRITING"]
              /\ w_pc' = [w_pc EXCEPT ![w] = "fill"]
              /\ UNCHANGED <<w_spin, rq_timeouts, rq_outcome>>
         ELSE /\ w_spin' = [w_spin EXCEPT ![w] = w_spin[w] + 1]
              /\ UNCHANGED <<request_state, w_pc, rq_timeouts, rq_outcome>>
    /\ UNCHANGED <<request_producer_idx, request_consumer_idx, request_id, w_ticket, w_req, submits, r_pc, r_prod, r_cons, raw_request_queue_, read_failures, rq_tickets, rq_timeouts, rq_reads>>
    /\ UNCHANGED <<poolVars, respVars, schedVars>>
    /\ UNCHANGED calcVars

\* submit_request_to_engine, lines 233-241: one turn of the wait loop.  The
\* CAS FREE -> WRITING succeeds when the slot is FREE; otherwise spin_count
\* is incremented and, past max_spins, the call throws the timeout error.
\* producer_idx is left as it is on that path (IPCProducer lines 127-138
\* likewise).
SubmitCas(w) ==
    /\ w_pc[w] = "wait"
    /\ IF request_state[SlotOf(w_ticket[w])] = "FREE"
         THEN /\ request_state' = [request_state EXCEPT ![SlotOf(w_ticket[w])] = "WRITING"]
              /\ w_pc' = [w_pc EXCEPT ![w] = "fill"]
              /\ UNCHANGED <<w_spin, rq_timeouts, rq_outcome>>
         ELSE IF w_spin[w] + 1 > MaxSpins
                THEN /\ w_pc' = [w_pc EXCEPT ![w] = "idle"]
                     /\ w_spin' = [w_spin EXCEPT ![w] = 0]
                     /\ rq_timeouts' = rq_timeouts + 1
                     /\ rq_outcome' = [rq_outcome EXCEPT ![w_req[w]] = "timeout"]
                     /\ UNCHANGED request_state
                ELSE /\ w_spin' = [w_spin EXCEPT ![w] = w_spin[w] + 1]
                     /\ UNCHANGED <<request_state, w_pc, rq_timeouts, rq_outcome>>
    /\ UNCHANGED <<request_producer_idx, request_consumer_idx, request_id, w_ticket, w_req, submits, r_pc, r_prod, r_cons, raw_request_queue_, read_failures, rq_tickets, rq_reads>>
    /\ UNCHANGED <<poolVars, respVars, schedVars>>
    /\ UNCHANGED calcVars

\* submit_request_to_engine, lines 244-253: fill the slot
SubmitFill(w) ==
    /\ w_pc[w] = "fill"
    /\ request_id' = [request_id EXCEPT ![SlotOf(w_ticket[w])] = w_req[w]]
    /\ w_pc' = [w_pc EXCEPT ![w] = "publish"]
    /\ UNCHANGED <<request_producer_idx, request_consumer_idx, request_state, w_ticket, w_spin, w_req, submits, r_pc, r_prod, r_cons, raw_request_queue_, read_failures, rq_tickets, rq_timeouts, rq_outcome, rq_reads>>
    /\ UNCHANGED <<poolVars, respVars, schedVars>>
    /\ UNCHANGED calcVars

\* submit_request_to_engine, lines 256-261: state.store(READY), return
SubmitPublish(w) ==
    /\ w_pc[w] = "publish"
    /\ request_state' = [request_state EXCEPT ![SlotOf(w_ticket[w])] = "READY"]
    /\ rq_outcome' = [rq_outcome EXCEPT ![w_req[w]] = "published"]
    /\ w_pc' = [w_pc EXCEPT ![w] = "idle"]
    /\ UNCHANGED <<request_producer_idx, request_consumer_idx, request_id, w_ticket, w_spin, w_req, submits, r_pc, r_prod, r_cons, raw_request_queue_, read_failures, rq_tickets, rq_timeouts, rq_reads>>
    /\ UNCHANGED <<poolVars, respVars, schedVars>>
    /\ UNCHANGED calcVars

\* RequestReader::process_incoming_requests, lines 212-213: load
\* producer_idx and consumer_idx.  run_loop calls the function after every
\* notification or 10 ms timeout.
ReaderLoad ==
    /\ r_pc = "idle"
    /\ r_prod' = request_producer_idx
    /\ r_cons' = request_consumer_idx
    /\ r_pc' = "loop"
    /\ UNCHANGED <<request_producer_idx, request_consumer_idx, request_state, request_id, w_pc, w_ticket, w_spin, w_req, submits, raw_request_queue_, read_failures, rq_tickets, rq_timeouts, rq_outcome, rq_reads>>
    /\ UNCHANGED <<poolVars, respVars, schedVars>>
    /\ UNCHANGED calcVars

\* lines 220-233: loop test cons != prod, then the CAS READY -> READING on
\* slot cons % NUM_SLOTS; the loop is left when the CAS fails.
ReaderCas ==
    /\ r_pc = "loop"
    /\ IF r_cons = r_prod
         THEN /\ r_pc' = "idle"
              /\ UNCHANGED request_state
         ELSE IF request_state[SlotOf(r_cons)] = "READY"
                THEN /\ request_state' = [request_state EXCEPT ![SlotOf(r_cons)] = "READING"]
                     /\ r_pc' = "copy"
                ELSE /\ r_pc' = "idle"
                     /\ UNCHANGED request_state
    /\ UNCHANGED <<request_producer_idx, request_consumer_idx, request_id, w_pc, w_ticket, w_spin, w_req, submits, r_prod, r_cons, raw_request_queue_, read_failures, rq_tickets, rq_timeouts, rq_outcome, rq_reads>>
    /\ UNCHANGED <<poolVars, respVars, schedVars>>
    /\ UNCHANGED calcVars

\* lines 238-282: build the RawRequestData.  When read_prompt_string throws
\* (lines 251-256) or output_queue_.push fails because the queue is full
\* (lines 273-277) the slot is stored FREE and the loop is left with cons
\* and consumer_idx as they were.  Otherwise the request is in the queue
\* and the slot is stored FREE (line 282).
ReaderCopy ==
    /\ r_pc = "copy"
    /\ \E read_fails \in (IF read_failures < MaxReadFailures THEN BOOLEAN ELSE {FALSE}) :
         IF read_fails \/ Len(raw_request_queue_) >= RawQueueCap
           THEN /\ read_failures' = IF read_fails THEN read_failures + 1 ELSE read_failures
                /\ rq_outcome' = [rq_outcome EXCEPT ![request_id[SlotOf(r_cons)]] = "dropped"]
                /\ r_pc' = "idle"
                /\ UNCHANGED <<raw_request_queue_, rq_reads>>
           ELSE /\ raw_request_queue_' = Append(raw_request_queue_, request_id[SlotOf(r_cons)])
                /\ rq_outcome' = [rq_outcome EXCEPT ![request_id[SlotOf(r_cons)]] = "consumed"]
                /\ rq_reads' = [rq_reads EXCEPT ![request_id[SlotOf(r_cons)]] = @ + 1]
                /\ r_pc' = "advance"
                /\ UNCHANGED read_failures
    /\ request_state' = [request_state EXCEPT ![SlotOf(r_cons)] = "FREE"]
    /\ UNCHANGED <<request_producer_idx, request_consumer_idx, request_id, w_pc, w_ticket, w_spin, w_req, submits, r_prod, r_cons, rq_tickets, rq_timeouts>>
    /\ UNCHANGED <<poolVars, respVars, schedVars>>
    /\ UNCHANGED calcVars

\* lines 283-284: ++cons; consumer_idx.store(cons)
ReaderAdvance ==
    /\ r_pc = "advance"
    /\ r_cons' = r_cons + 1
    /\ request_consumer_idx' = r_cons + 1
    /\ r_pc' = "loop"
    /\ UNCHANGED <<request_producer_idx, request_state, request_id, w_pc, w_ticket, w_spin, w_req, submits, r_prod, raw_request_queue_, read_failures, rq_tickets, rq_timeouts, rq_outcome, rq_reads>>
    /\ UNCHANGED <<poolVars, respVars, schedVars>>
    /\ UNCHANGED calcVars

\* RequestPreprocessor::run_loop: input_queue_.pop takes the oldest
\* RawRequest out of the queue
PreprocessorPop ==
    /\ raw_request_queue_ # <<>>
    /\ raw_request_queue_' = Tail(raw_request_queue_)
    /\ UNCHANGED <<request_producer_idx, request_consumer_idx, request_state, request_id, w_pc, w_ticket, w_spin, w_req, submits, r_pc, r_prod, r_cons, read_failures, rq_tickets, rq_timeouts, rq_outcome, rq_reads>>
    /\ UNCHANGED <<poolVars, respVars, schedVars>>
    /\ UNCHANGED calcVars

RingNext ==
    \/ \E w \in Writers : SubmitTicket(w)
    \/ \E w \in Writers : SubmitCas(w)
    \/ \E w \in Writers : SubmitFill(w)
    \/ \E w \in Writers : SubmitPublish(w)
    \/ ReaderLoad
    \/ ReaderCas
    \/ ReaderCopy
    \/ ReaderAdvance
    \/ PreprocessorPop

\* SPSCQueue::try_enqueue of ipc_reader.cpp, line 23: the placeholder queue
\* accepts nothing
try_enqueue == FALSE

\* IPCReader::process_incoming_requests, lines 191-192
LegacyReaderLoad ==
    /\ r_pc = "idle"
    /\ r_cons' = request_consumer_idx
    /\ r_prod' = request_producer_idx
    /\ r_pc' = "legacy_loop"
    /\ UNCHANGED <<request_producer_idx, request_consumer_idx, request_state, request_id, w_pc, w_ticket, w_spin, w_req, submits, raw_request_queue_, read_failures, rq_tickets, rq_timeouts, rq_outcome, rq_reads>>
    /\ UNCHANGED <<poolVars, respVars, schedVars>>
    /\ UNCHANGED calcVars

\* lines 194-203 and 236-249: loop test current_consumer_idx <
\* producer_idx_snapshot, the CAS READY -> READING, and on its failure:
\* leave the loop for FREE / WRITING, skip the slot for any other state.
LegacyReaderCas ==
    /\ r_pc = "legacy_loop"
    /\ IF ~(r_cons < r_prod)
         THEN /\ r_pc' = "idle"
              /\ UNCHANGED <<request_state, r_cons>>
         ELSE IF request_state[SlotOf(r_cons)] = "READY"
                THEN /\ request_state' = [request_state EXCEPT ![SlotOf(r_cons)] = "READING"]
                     /\ r_pc' = "legacy_build"
                     /\ UNCHANGED r_cons
                ELSE IF request_state[SlotOf(r_cons)] \in {"FREE", "WRITING"}
                       THEN /\ r_pc' = "idle"
                            /\ UNCHANGED <<request_state, r_cons>>
                       ELSE /\ r_cons' = r_cons + 1
                            /\ UNCHANGED <<request_state, r_pc>>
    /\ UNCHANGED <<request_producer_idx, request_consumer_idx, request_id, w_pc, w_ticket, w_spin, w_req, submits, r_prod, raw_request_queue_, read_failures, rq_tickets, rq_timeouts, rq_outcome, rq_reads>>
    /\ UNCHANGED <<poolVars, respVars, schedVars>>
    /\ UNCHANGED calcVars

\* lines 207-232: build_sequence_from_slot gives a Sequence or nullptr
\* (offset/size of the prompt out of range).  A Sequence that the queue
\* does not take makes the reader store READY into the slot it holds in
\* READING (line 216) and leave the loop; in the other cases the slot is
\* stored FREE (line 232).
LegacyReaderBuild ==
    /\ r_pc = "legacy_build"
    /\ \E built \in BOOLEAN :
         IF built /\ ~try_enqueue
           THEN /\ request_state' = [request_state EXCEPT ![SlotOf(r_cons)] = "READY"]
                /\ r_pc' = "idle"
                /\ UNCHANGED <<rq_outcome, rq_reads>>
           ELSE /\ request_state' = [request_state EXCEPT ![SlotOf(r_cons)] = "FREE"]
                /\ r_pc' = "legacy_advance"
                /\ rq_outcome' = [rq_outcome EXCEPT ![request_id[SlotOf(r_cons)]] = IF built THEN "consumed" ELSE "dropped"]
                /\ rq_reads' = [rq_reads EXCEPT ![request_id[SlotOf(r_cons)]] = @ + 1]
    /\ UNCHANGED <<request_producer_idx, request_consumer_idx, request_id, w_pc, w_ticket, w_spin, w_req, submits, r_prod, r_cons, raw_request_queue_, read_failures, rq_tickets, rq_timeouts>>
    /\ UNCHANGED <<poolVars, respVars, schedVars>>
    /\ UNCHANGED calcVars

\* lines 233-234: consumer_idx.fetch_add(1); current_consumer_idx++
LegacyReaderAdvance ==
    /\ r_pc = "legacy_advance"
    /\ request_consumer_idx' = request_consumer_idx + 1
    /\ r_cons' = r_cons + 1
    /\ r_pc' = "legacy_loop"
    /\ UNCHANGED <<request_producer_idx, request_state, request_id, w_pc, w_ticket, w_spin, w_req, submits, r_prod, raw_request_queue_, read_failures, rq_tickets, rq_timeouts, rq_outcome, rq_reads>>
    /\ UNCHANGED <<poolVars, respVars, schedVars>>
    /\ UNCHANGED calcVars

\* IPCProducer threads and the IPCReader thread on the request ring
LegacyRingNext ==
    \/ \E w \in Writers : SubmitTicket(w)
    \/ \E w \in Writers : SubmitCas(w)
    \/ \E w \in Writers : SubmitFill(w)
    \/ \E w \in Writers : SubmitPublish(w)
    \/ LegacyReaderLoad
    \/ LegacyReaderCas
    \/ LegacyReaderBuild
    \/ LegacyReaderAdvance

(***************************************************************************)
(* Response path: RequestPreprocessor -> Scheduler -> postprocessing queue *)
(* -> ResponsePostprocessor -> ResponseWriter -> response ring ->          *)
(* ResponseReader (the client)                                             *)
(***************************************************************************)
\* State after Engine construction: no Sequence exists, the queues are
\* empty, the response segment is zero-filled (every slot
\* FREE_FOR_CPP_WRITER, both indices 0), nothing has reached the client.
RespInit ==
    /\ seq_status = [q \in Requests |-> "NONE"]
    /\ pre_outcome = [q \in Requests |-> "pending"]
    /\ generation_len = [q \in Requests |-> 0]
    /\ processed_sequence_queue_ = <<>>
    /\ running_sequences_ = {}
    /\ postprocessing_queue_ = <<>>
    /\ response_producer_idx = 0
    /\ response_consumer_idx = 0
    /\ response_state = [s \in Slots |-> "FREE_FOR_CPP_WRITER"]
    /\ response_delta = [s \in Slots |-> NoDelta]
    /\ rw_pc = [W \in ResponseWriters |-> "idle"]
    /\ rw_ticket = [W \in ResponseWriters |-> 0]
    /\ rw_spin = [W \in ResponseWriters |-> 0]
    /\ rw_delta = [W \in ResponseWriters |-> NoDelta]
    /\ c_pc = "idle"
    /\ c_cons = 0
    /\ client_log = [q \in Requests |-> <<>>]
    /\ rs_tickets = 0
    /\ rs_timeouts = 0

\* RequestPreprocessor::run_loop, lines 205-243, for the next RawRequest:
\* the Sequence constructor may throw (lines 221-225, the request is
\* skipped); a constructed Sequence is pushed to the Sequence queue, and
\* when the queue is full it is dropped with a log line and nothing else
\* (lines 231-233).
PreprocessRequest(q) ==
    /\ pre_outcome[q] = "pending"
    /\ \A p \in Requests : p < q => pre_outcome[p] # "pending"
    /\ \E constructed \in BOOLEAN :
         IF ~constructed
           THEN /\ pre_outcome' = [pre_outcome EXCEPT ![q] = "no_sequence"]
                /\ UNCHANGED <<seq_status, processed_sequence_queue_>>
           ELSE IF Len(processed_sequence_queue_) >= SeqQueueCap
                  THEN /\ pre_outcome' = [pre_outcome EXCEPT ![q] = "queue_full"]
                       /\ UNCHANGED <<seq_status, processed_sequence_queue_>>
                  ELSE /\ pre_outcome' = [pre_outcome EXCEPT ![q] = "enqueued"]
                       /\ seq_status' = [seq_status EXCEPT ![q] = "WAITING"]
                       /\ processed_sequence_queue_' = Append(processed_sequence_queue_, q)
    /\ UNCHANGED <<generation_len, running_sequences_, postprocessing_queue_, response_producer_idx, response_consumer_idx, response_state, response_delta, rw_pc, rw_ticket, rw_spin, rw_delta, c_pc, c_cons, client_log, rs_tickets, rs_timeouts>>
    /\ UNCHANGED <<poolVars, ringVars, schedVars>>
    /\ UNCHANGED calcVars

\* number of Sequences ingest_new_sequences takes: it pops while
\* running_sequences_.size() < max_num_seqs_ and the queue is not empty
IngestCount ==
    IF Len(processed_sequence_queue_) < MaxNumSeqs - Cardinality(running_sequences_)
      THEN Len(processed_sequence_queue_)
      ELSE MaxNumSeqs - Cardinality(running_sequences_)

\* Scheduler::ingest_new_sequences, lines 206-256: every popped Sequence
\* goes to PREFILLING and into running_sequences_
IngestNewSequences ==
    /\ rw_pc["scheduler"] = "idle"
    /\ IngestCount > 0
    /\ seq_status' = [q \in Requests |->
                        IF \E i \in 1 .. IngestCount : processed_sequence_queue_[i] = q
                          THEN "PREFILLING" ELSE seq_status[q]]
    /\ running_sequences_' = running_sequences_ \cup {processed_sequence_queue_[i] : i \in 1 .. IngestCount}
    /\ processed_sequence_queue_' = SubSeq(processed_sequence_queue_, IngestCount + 1, Len(processed_sequence_queue_))
    /\ UNCHANGED <<pre_outcome, generation_len, postprocessing_queue_, response_producer_idx, response_consumer_idx, response_state, response_delta, rw_pc, rw_ticket, rw_spin, rw_delta, c_pc, c_cons, client_log, rs_tickets, rs_timeouts>>
    /\ UNCHANGED <<poolVars, ringVars, schedVars>>
    /\ UNCHANGED calcVars

\* PostprocessingData / ResponseDeltaSlot for the token with index idx of
\* request q
Delta(q, idx, final, reason) ==
    [request_id |-> q, token_index |-> idx, is_final_delta |-> final, finish_reason |-> reason]

\* Scheduler::run_loop, lines 111-184: the Sequence at
\* running_sequences_.begin() (an unordered_map: any element) is taken out
\* of running_sequences_ and one final delta (STOP) is made for it; it is
\* pushed to the postprocessing queue, or, when the queue is full, written
\* by the scheduler thread itself with write_delta.
RunLoopMock(q) ==
    /\ rw_pc["scheduler"] = "idle"
    /\ q \in running_sequences_
    /\ LET d == Delta(q, generation_len[q], TRUE, "STOP")
       IN  /\ running_sequences_' = running_sequences_ \ {q}
           /\ IF Len(postprocessing_queue_) < PPQueueCap
                THEN /\ postprocessing_queue_' = Append(postprocessing_queue_, d)
                     /\ UNCHANGED <<rw_pc, rw_delta>>
                ELSE /\ rw_delta' = [rw_delta EXCEPT !["scheduler"] = d]
                     /\ rw_pc' = [rw_pc EXCEPT !["scheduler"] = "ticket"]
                     /\ UNCHANGED postprocessing_queue_
    /\ UNCHANGED <<seq_status, pre_outcome, generation_len, processed_sequence_queue_, response_producer_idx, response_consumer_idx, response_state, response_delta, rw_ticket, rw_spin, c_pc, c_cons, client_log, rs_tickets, rs_timeouts>>
    /\ UNCHANGED <<poolVars, ringVars, schedVars>>
    /\ UNCHANGED calcVars

\* process_batch_output for any sequence of running_sequences_, finished or not
ProcessBatchOutputAnyStatus(q) ==
    /\ rw_pc["scheduler"] = "idle"
    /\ q \in running_sequences_
    /\ \E step_fails \in BOOLEAN, stop_token \in BOOLEAN :
         LET new_len == generation_len[q] + 1
             finished == (new_len >= MaxGenTokens) \/ stop_token
             reason == IF new_len >= MaxGenTokens THEN "LENGTH" ELSE "STOP"
         IN  IF step_fails
               THEN UNCHANGED <<generation_len, postprocessing_queue_, seq_status, rw_delta, rw_pc, stop_sampled>>
               ELSE /\ generation_len' = [generation_len EXCEPT ![q] = new_len]
                    /\ stop_sampled' = stop_token
                    /\ IF Len(postprocessing_queue_) < PPQueueCap
                         THEN /\ postprocessing_queue_' = Append(postprocessing_queue_, Delta(q, generation_len[q], finished, reason))
                              /\ seq_status' = [seq_status EXCEPT ![q] = IF finished THEN "COMPLETED" ELSE @]
                              /\ UNCHANGED <<rw_delta, rw_pc>>
                         ELSE /\ seq_status' = [seq_status EXCEPT ![q] = "ERROR"]
                              /\ rw_delta' = [rw_delta EXCEPT !["scheduler"] = Delta(q, generation_len[q], TRUE, reason)]
                              /\ rw_pc' = [rw_pc EXCEPT !["scheduler"] = "ticket"]
                              /\ UNCHANGED postprocessing_queue_
    /\ UNCHANGED <<pre_outcome, processed_sequence_queue_, running_sequences_, response_producer_idx, response_consumer_idx, response_state, response_delta, rw_ticket, rw_spin, c_pc, c_cons, client_log, rs_tickets, rs_timeouts>>
    /\ UNCHANGED <<page_table, cancelled, alloc_result, sched_alloc_calls, cancel_calls, stale_frees, sched_state>>
    /\ UNCHANGED lifeVars
    /\ UNCHANGED <<poolVars, ringVars>>
    /\ UNCHANGED calcVars

\* Scheduler::process_batch_output, lines 462-626, for one sequence of the
\* batch.  The batch holds sequences that select_batch counts as
\* candidates: PREFILLING or DECODING (lines 271-277).  A failure of logit processing, sampling or append_token skips
\* the sequence (lines 515-545).  Otherwise the token is appended, the
\* stop test is LENGTH before STOP (lines 551-568), and the token goes to
\* the postprocessing queue; when the queue is full the sequence is set to
\* ERROR and the scheduler thread writes the delta itself, as the final one
\* (lines 586-607).  A finished sequence that is not ERROR becomes
\* COMPLETED (lines 611-614).
ProcessBatchOutput(q) ==
    /\ rw_pc["scheduler"] = "idle"
    /\ q \in running_sequences_
    /\ seq_status[q] \in {"PREFILLING", "DECODING"}
    /\ \E step_fails \in BOOLEAN, stop_token \in BOOLEAN :
         LET new_len == generation_len[q] + 1
             finished == (new_len >= MaxGenTokens) \/ stop_token
             reason == IF new_len >= MaxGenTokens THEN "LENGTH" ELSE "STOP"
         IN  IF step_fails
               THEN UNCHANGED <<generation_len, postprocessing_queue_, seq_status, rw_delta, rw_pc, stop_sampled>>
               ELSE /\ generation_len' = [generation_len EXCEPT ![q] = new_len]
                    /\ stop_sampled' = stop_token
                    /\ IF Len(postprocessing_queue_) < PPQueueCap
                         THEN /\ postprocessing_queue_' = Append(postprocessing_queue_, Delta(q, generation_len[q], finished, reason))
                              /\ seq_status' = [seq_status EXCEPT ![q] = IF finished THEN "COMPLETED" ELSE @]
                              /\ UNCHANGED <<rw_delta, rw_pc>>
                         ELSE /\ seq_status' = [seq_status EXCEPT ![q] = "ERROR"]
                              /\ rw_delta' = [rw_delta EXCEPT !["scheduler"] = Delta(q, generation_len[q], TRUE, reason)]
                              /\ rw_pc' = [rw_pc EXCEPT !["scheduler"] = "ticket"]
                              /\ UNCHANGED postprocessing_queue_
    /\ UNCHANGED <<pre_outcome, processed_sequence_queue_, running_sequences_, response_producer_idx, response_consumer_idx, response_state, response_delta, rw_ticket, rw_spin, c_pc, c_cons, client_log, rs_tickets, rs_timeouts>>
    /\ UNCHANGED <<page_table, cancelled, alloc_result, sched_alloc_calls, cancel_calls, stale_frees, sched_state>>
    /\ UNCHANGED lifeVars
    /\ UNCHANGED <<poolVars, ringVars>>
    /\ UNCHANGED calcVars

\* State of the scheduler's sequences after construction: no pages, no
\* cancellation, the scheduler thread in its loop
SchedInit ==
    /\ page_table = [q \in Requests |-> <<>>]
    /\ cancelled = [q \in Requests |-> FALSE]
    /\ alloc_result = [seq |-> NoReq, ok |-> TRUE, len |-> 0]
    /\ sched_alloc_calls = 0
    /\ cancel_calls = 0
    /\ stale_frees = 0
    /\ stop_sampled = FALSE
    /\ sched_state = "running"
    /\ g_shutdown_requested = FALSE
    /\ engine_pc = "constructed"
    /\ stop_flag_ = [w \in Workers |-> FALSE]
    /\ worker_pc = [w \in Workers |-> "not_started"]
    /\ kernel_event = FALSE
    /\ sched_spin = 0
    /\ at_stop = [w \in Workers |-> "none"]

\* Scheduler::allocate_pages_for_sequence, lines 290-346, for a running
\* sequence: nothing to do when the page_table already has the required
\* number of blocks (lines 299-303); otherwise the allocation loop.
AllocatePagesForSequence(q) ==
    /\ rw_pc["scheduler"] = "idle"
    /\ q \in running_sequences_
    /\ seq_status[q] \in {"PREFILLING", "DECODING"}
    /\ sched_alloc_calls < MaxSchedAllocCalls
    /\ sched_alloc_calls' = sched_alloc_calls + 1
    /\ LET current_blocks  == Len(page_table[q])
           required_blocks == RequiredBlocks(get_logical_len(q))
           r == IF required_blocks <= current_blocks
                  THEN [pool |-> PoolState, table |-> page_table[q], ok |-> TRUE]
                  ELSE AllocLoop(PoolState, page_table[q], <<>>, required_blocks - current_blocks)
       IN  /\ page_table' = [page_table EXCEPT ![q] = r.table]
           /\ alloc_result' = [seq |-> q, ok |-> r.ok, len |-> get_logical_len(q)]
           /\ ref_count' = r.pool.ref_count
           /\ next' = r.pool.next
           /\ head' = r.pool.head
           /\ num_free_pages_' = r.pool.num_free_pages_
           /\ stale_frees' = r.pool.stale_frees
    /\ UNCHANGED <<tpc, t_cur, t_nxt, t_node, t_old, held, alloc_calls, addref_calls, owners, page_hist, free_log, last_call, api_calls>>
    /\ UNCHANGED <<cancelled, cancel_calls, stop_sampled, sched_state>>
    /\ UNCHANGED lifeVars
    /\ UNCHANGED <<ringVars, respVars>>
    /\ UNCHANGED calcVars

\* Sequence::cancelled (sequence.hpp line 49) is set from outside the
\* scheduler thread for a running sequence
Cancel(q) ==
    /\ q \in running_sequences_
    /\ ~cancelled[q]
    /\ cancel_calls < MaxCancels
    /\ cancelled' = [cancelled EXCEPT ![q] = TRUE]
    /\ cancel_calls' = cancel_calls + 1
    /\ UNCHANGED <<page_table, alloc_result, sched_alloc_calls, stale_frees, stop_sampled, sched_state>>
    /\ UNCHANGED lifeVars
    /\ UNCHANGED <<poolVars, ringVars, respVars>>
    /\ UNCHANGED calcVars

\* cleanup_finished_sequences, lines 682-685: should_remove
ShouldRemove(q) == seq_status[q] \in {"COMPLETED", "ERROR"} \/ cancelled[q]

\* the orders in which the sequences of S can be visited (iteration order
\* of the unordered_map running_sequences_)
Orders(S) ==
    {o \in [1 .. Cardinality(S) -> S] : \A i, j \in 1 .. Cardinality(S) : i # j => o[i] # o[j]}

\* Scheduler::free_sequence_pages, lines 640-669, for the sequences of
\* order, one after the other: free_page for every page of the page_table
RECURSIVE free_sequence_pages(_, _)
free_sequence_pages(P, order) ==
    IF order = <<>> THEN P
    ELSE free_sequence_pages(FreePages(P, page_table[Head(order)]), Tail(order))

\* Scheduler::cleanup_finished_sequences, lines 671-715: every COMPLETED,
\* ERROR or cancelled sequence has the pages of its page_table freed
\* (line 696) and is erased from running_sequences_ (line 697), its
\* page_table with it.  When a page of the table has ref_count 0 the
\* dec_ref of page.hpp lines 65-70 wraps in a build without assertions and
\* aborts the process in a build with assertions.
CleanupFinishedSequences ==
    /\ rw_pc["scheduler"] = "idle"
    /\ \E q \in running_sequences_ : ShouldRemove(q)
    /\ LET S == {q \in running_sequences_ : ShouldRemove(q)}
       IN  \E order \in Orders(S), assertions \in BOOLEAN :
             LET R == free_sequence_pages(PoolState, order)
             IN  IF R.stale_frees > stale_frees /\ assertions
                   THEN /\ sched_state' = "aborted"
                        /\ stale_frees' = stale_frees + 1
                        /\ UNCHANGED <<running_sequences_, page_table, ref_count, next, head, num_free_pages_>>
                   ELSE /\ running_sequences_' = running_sequences_ \ S
                        /\ page_table' = [q \in Requests |-> IF q \in S THEN <<>> ELSE page_table[q]]
                        /\ ref_count' = R.ref_count
                        /\ next' = R.next
                        /\ head' = R.head
                        /\ num_free_pages_' = R.num_free_pages_
                        /\ stale_frees' = R.stale_frees
                        /\ UNCHANGED sched_state
    /\ UNCHANGED <<seq_status, pre_outcome, generation_len, processed_sequence_queue_, postprocessing_queue_, response_producer_idx, response_consumer_idx, response_state, response_delta, rw_pc, rw_ticket, rw_spin, rw_delta, c_pc, c_cons, client_log, rs_tickets, rs_timeouts>>
    /\ UNCHANGED <<tpc, t_cur, t_nxt, t_node, t_old, held, alloc_calls, addref_calls, owners, page_hist, free_log, last_call, api_calls>>
    /\ UNCHANGED <<cancelled, alloc_result, sched_alloc_calls, cancel_calls, stop_sampled>>
    /\ UNCHANGED lifeVars
    /\ UNCHANGED ringVars
    /\ UNCHANGED calcVars

\* Scheduler::stop (lines 63-70) sets stop_flag_, run_loop leaves its
\* while loop at the next test (line 89) and ~Scheduler (lines 44-61) logs
\* every sequence still in running_sequences_ as abandoned; no page is
\* freed.
SchedulerShutdown ==
    /\ rw_pc["scheduler"] = "idle"
    /\ sched_state = "running"
    /\ sched_state' = "stopped"
    /\ UNCHANGED <<page_table, cancelled, alloc_result, sched_alloc_calls, cancel_calls, stale_frees, stop_sampled>>
    /\ UNCHANGED lifeVars
    /\ UNCHANGED <<poolVars, ringVars, respVars>>
    /\ UNCHANGED calcVars

\* ResponsePostprocessor::run_loop, lines 47-98: pop the oldest
\* PostprocessingData, build the delta (is_final_delta and finish_reason
\* pass through) and call write_delta
PostprocessorPop ==
    /\ rw_pc["postprocessor"] = "idle"
    /\ postprocessing_queue_ # <<>>
    /\ rw_delta' = [rw_delta EXCEPT !["postprocessor"] = Head(postprocessing_queue_)]
    /\ postprocessing_queue_' = Tail(postprocessing_queue_)
    /\ rw_pc' = [rw_pc EXCEPT !["postprocessor"] = "ticket"]
    /\ UNCHANGED <<seq_status, pre_outcome, generation_len, processed_sequence_queue_, running_sequences_, response_producer_idx, response_consumer_idx, response_state, response_delta, rw_ticket, rw_spin, c_pc, c_cons, client_log, rs_tickets, rs_timeouts>>
    /\ UNCHANGED <<poolVars, ringVars, schedVars>>
    /\ UNCHANGED calcVars

\* ResponseWriter::write_delta, lines 121-129: producer_idx.fetch_add(1)
WriteTicket(W) ==
    /\ rw_pc[W] = "ticket"
    /\ rw_ticket' = [rw_ticket EXCEPT ![W] = response_producer_idx]
    /\ response_producer_idx' = response_producer_idx + 1
    /\ rs_tickets' = rs_tickets + 1
    /\ rw_spin' = [rw_spin EXCEPT ![W] = 0]
    /\ rw_pc' = [rw_pc EXCEPT ![W] = "wait"]
    /\ UNCHANGED <<seq_status, pre_outcome, generation_len, processed_sequence_queue_, running_sequences_, postprocessing_queue_, response_consumer_idx, response_state, response_delta, rw_delta, c_pc, c_cons, client_log, rs_timeouts>>
    /\ UNCHANGED <<poolVars, ringVars, schedVars>>
    /\ UNCHANGED calcVars

\* write_delta, lines 136-146: one turn of the wait loop; past max_spins
\* the writer goes to the timeout path
WriteCas(W) ==
    /\ rw_pc[W] = "wait"
    /\ IF response_state[SlotOf(rw_ticket[W])] = "FREE_FOR_CPP_WRITER"
         THEN /\ response_state' = [response_state EXCEPT ![SlotOf(rw_ticket[W])] = "CPP_WRITING"]
              /\ rw_pc' = [rw_pc EXCEPT ![W] = "fill"]
              /\ UNCHANGED rw_spin
         ELSE IF rw_spin[W] + 1 > MaxSpins
                THEN /\ rw_pc' = [rw_pc EXCEPT ![W] = "rollback"]
                     /\ rw_spin' = [rw_spin EXCEPT ![W] = 0]
                     /\ UNCHANGED response_state
                ELSE /\ rw_spin' = [rw_spin EXCEPT ![W] = rw_spin[W] + 1]
                     /\ UNCHANGED <<response_state, rw_pc>>
    /\ UNCHANGED <<seq_status, pre_outcome, generation_len, processed_sequence_queue_, running_sequences_, postprocessing_queue_, response_producer_idx, response_consumer_idx, response_delta, rw_ticket, rw_delta, c_pc, c_cons, client_log, rs_tickets, rs_timeouts>>
    /\ UNCHANGED <<poolVars, ringVars, schedVars>>
    /\ UNCHANGED calcVars

\* write_delta, lines 148-155: producer_idx.fetch_sub(1), then throw
\* ResponseWriterError; both callers catch it and go on without the delta
\* (response_postprocessor.cpp 102-104, scheduler.cpp 181-183, 604-607)
WriteRollback(W) ==
    /\ rw_pc[W] = "rollback"
    /\ response_producer_idx' = response_producer_idx - 1
    /\ rs_timeouts' = rs_timeouts + 1
    /\ rw_delta' = [rw_delta EXCEPT ![W] = NoDelta]
    /\ rw_pc' = [rw_pc EXCEPT ![W] = "idle"]
    /\ UNCHANGED <<seq_status, pre_outcome, generation_len, processed_sequence_queue_, running_sequences_, postprocessing_queue_, response_consumer_idx, response_state, response_delta, rw_ticket, rw_spin, c_pc, c_cons, client_log, rs_tickets>>
    /\ UNCHANGED <<poolVars, ringVars, schedVars>>
    /\ UNCHANGED calcVars

\* write_delta, lines 168-218: copy the delta into the slot and store
\* READY_FOR_PYTHON
WritePublish(W) ==
    /\ rw_pc[W] = "fill"
    /\ response_delta' = [response_delta EXCEPT ![SlotOf(rw_ticket[W])] = rw_delta[W]]
    /\ response_state' = [response_state EXCEPT ![SlotOf(rw_ticket[W])] = "READY_FOR_PYTHON"]
    /\ rw_delta' = [rw_delta EXCEPT ![W] = NoDelta]
    /\ rw_pc' = [rw_pc EXCEPT ![W] = "idle"]
    /\ UNCHANGED <<seq_status, pre_outcome, generation_len, processed_sequence_queue_, running_sequences_, postprocessing_queue_, response_producer_idx, response_consumer_idx, rw_ticket, rw_spin, c_pc, c_cons, client_log, rs_tickets, rs_timeouts>>
    /\ UNCHANGED <<poolVars, ringVars, schedVars>>
    /\ UNCHANGED calcVars

\* ResponseReader::consume_next_delta, lines 139-148: load the indices and,
\* when they differ, CAS READY_FOR_PYTHON -> PYTHON_READING on slot
\* cons_idx % NUM_SLOTS (a failed CAS sleeps and retries)
ClientCas ==
    /\ c_pc = "idle"
    /\ response_consumer_idx # response_producer_idx
    /\ response_state[SlotOf(response_consumer_idx)] = "READY_FOR_PYTHON"
    /\ response_state' = [response_state EXCEPT ![SlotOf(response_consumer_idx)] = "PYTHON_READING"]
    /\ c_cons' = response_consumer_idx
    /\ c_pc' = "copy"
    /\ UNCHANGED <<seq_status, pre_outcome, generation_len, processed_sequence_queue_, running_sequences_, postprocessing_queue_, response_producer_idx, response_consumer_idx, response_delta, rw_pc, rw_ticket, rw_spin, rw_delta, client_log, rs_tickets, rs_timeouts>>
    /\ UNCHANGED <<poolVars, ringVars, schedVars>>
    /\ UNCHANGED calcVars

\* consume_next_delta, lines 151-168: copy the delta out (the client now
\* has it) and store FREE_FOR_CPP_WRITER
ClientCopy ==
    /\ c_pc = "copy"
    /\ client_log' = [client_log EXCEPT ![response_delta[SlotOf(c_cons)].request_id] = Append(@, response_delta[SlotOf(c_cons)])]
    /\ response_state' = [response_state EXCEPT ![SlotOf(c_cons)] = "FREE_FOR_CPP_WRITER"]
    /\ c_pc' = "advance"
    /\ UNCHANGED <<seq_status, pre_outcome, generation_len, processed_sequence_queue_, running_sequences_, postprocessing_queue_, response_producer_idx, response_consumer_idx, response_delta, rw_pc, rw_ticket, rw_spin, rw_delta, c_cons, rs_tickets, rs_timeouts>>
    /\ UNCHANGED <<poolVars, ringVars, schedVars>>
    /\ UNCHANGED calcVars

\* consume_next_delta, line 169: consumer_idx.store(cons_idx + 1)
ClientAdvance ==
    /\ c_pc = "advance"
    /\ response_consumer_idx' = c_cons + 1
    /\ c_pc' = "idle"
    /\ UNCHANGED <<seq_status, pre_outcome, generation_len, processed_sequence_queue_, running_sequences_, postprocessing_queue_, response_producer_idx, response_state, response_delta, rw_pc, rw_ticket, rw_spin, rw_delta, c_cons, client_log, rs_tickets, rs_timeouts>>
    /\ UNCHANGED <<poolVars, ringVars, schedVars>>
    /\ UNCHANGED calcVars

\* Preprocessor, scheduler, postprocessor and client threads, the scheduler
\* emitting through process_batch_output (the batched path)
ResponseNext ==
    \/ \E q \in Requests : PreprocessRequest(q)
    \/ IngestNewSequences
    \/ \E q \in Requests : ProcessBatchOutput(q)
    \/ CleanupFinishedSequences
    \/ PostprocessorPop
    \/ \E W \in ResponseWriters : WriteTicket(W)
    \/ \E W \in ResponseWriters : WriteCas(W)
    \/ \E W \in ResponseWriters : WriteRollback(W)
    \/ \E W \in ResponseWriters : WritePublish(W)
    \/ ClientCas
    \/ ClientCopy
    \/ ClientAdvance

\* The same threads with the scheduler loop as it is in run_loop: ingest,
\* then the one-delta emission of lines 111-184
MockResponseNext ==
    \/ \E q \in Requests : PreprocessRequest(q)
    \/ IngestNewSequences
    \/ \E q \in Requests : RunLoopMock(q)
    \/ PostprocessorPop
    \/ \E W \in ResponseWriters : WriteTicket(W)
    \/ \E W \in ResponseWriters : WriteCas(W)
    \/ \E W \in ResponseWriters : WriteRollback(W)
    \/ \E W \in ResponseWriters : WritePublish(W)
    \/ ClientCas
    \/ ClientCopy
    \/ ClientAdvance

\* the response path has not started
ResponseUntouched == rs_tickets = 0 /\ \A q \in Requests : pre_outcome[q] = "pending"

\* A ring is filled while its consumer is not running: either producers
\* call submit_request_to_engine one call after the other and the
\* RequestReader thread does not run, or the engine emits deltas, one
\* write_delta call after the other, and no client calls consume_next_delta
FillRingNext ==
    \/ \E w \in Writers :
         /\ ResponseUntouched
         /\ \A u \in Writers \ {w} : w_pc[u] = "idle"
         /\ \/ SubmitTicket(w)
            \/ SubmitCas(w)
            \/ SubmitFill(w)
            \/ SubmitPublish(w)
    \/ /\ submits = 0
       /\ \/ \E q \in Requests : PreprocessRequest(q)
          \/ IngestNewSequences
          \/ \E q \in Requests : ProcessBatchOutput(q)
          \/ CleanupFinishedSequences
          \/ PostprocessorPop
          \/ \E W \in ResponseWriters :
               /\ \A V \in ResponseWriters \ {W} : rw_pc[V] \in {"idle", "ticket"}
               /\ WriteTicket(W)
          \/ \E W \in ResponseWriters : WriteCas(W)
          \/ \E W \in ResponseWriters : WriteRollback(W)
          \/ \E W \in ResponseWriters : WritePublish(W)

\* no submission has been made and the request reader is between two passes
RequestUntouched == submits = 0 /\ r_pc = "idle"

\* The transport with all its threads: the producers, the reader and the
\* preprocessor on the request ring, or the engine's two writer threads and
\* the client on the response ring
TransportNext ==
    \/ ResponseUntouched /\ RingNext
    \/ RequestUntouched /\ ResponseNext

(***************************************************************************)
(* Engine life cycle: run_blocking, the signal handler, Engine::stop and   *)
(* the run_loop of each worker thread, reduced to its loop tests, its      *)
(* waits and its sleeps                                                    *)
(***************************************************************************)
\* signal handler, main.cpp line 16: g_shutdown_requested.store(true)
SignalShutdown ==
    /\ ~g_shutdown_requested
    /\ g_shutdown_requested' = TRUE
    /\ UNCHANGED <<engine_pc, stop_flag_, worker_pc, kernel_event, sched_spin, at_stop>>
    /\ UNCHANGED <<poolVars, ringVars, respVars, pageVars>>
    /\ UNCHANGED calcVars

\* a producer's notification after a submission: the user event on the
\* kqueue the reader waits on
ProducerNotify ==
    /\ ~kernel_event
    /\ kernel_event' = TRUE
    /\ UNCHANGED <<g_shutdown_requested, engine_pc, stop_flag_, worker_pc, sched_spin, at_stop>>
    /\ UNCHANGED <<poolVars, ringVars, respVars, pageVars>>
    /\ UNCHANGED calcVars

\* Engine::run_blocking, lines 117-119: the three worker threads start
EngineStartThreads ==
    /\ engine_pc = "constructed"
    /\ engine_pc' = "polling"
    /\ worker_pc' = [w \in Workers |-> "loop_test"]
    /\ UNCHANGED <<g_shutdown_requested, stop_flag_, kernel_event, sched_spin, at_stop>>
    /\ UNCHANGED <<poolVars, ringVars, respVars, pageVars>>
    /\ UNCHANGED calcVars

\* Engine::run_blocking, lines 124-130, and Engine::stop, line 135: the
\* polling loop (100 ms sleeps) ends once g_shutdown_requested is set and
\* stop() takes its stop_flag_
EnginePoll ==
    /\ engine_pc = "polling"
    /\ g_shutdown_requested
    /\ engine_pc' = "stop_reader"
    /\ UNCHANGED <<g_shutdown_requested, stop_flag_, worker_pc, kernel_event, sched_spin, at_stop>>
    /\ UNCHANGED <<poolVars, ringVars, respVars, pageVars>>
    /\ UNCHANGED calcVars

\* the order of the stop() calls in Engine::stop, lines 142-144
StopOrder == <<"reader", "preprocessor", "scheduler">>

\* the order of the join() calls in Engine::stop, lines 151-162
JoinOrder == <<"scheduler", "preprocessor", "reader">>

\* Engine::stop, lines 142-144: the i-th component's stop() sets its
\* stop_flag_ (request_reader.cpp 79-86, request_preprocessor.cpp 81-87,
\* scheduler.cpp 63-70)
EngineStopComponent(i) ==
    /\ engine_pc = "stop_" \o StopOrder[i]
    /\ stop_flag_' = [stop_flag_ EXCEPT ![StopOrder[i]] = TRUE]
    /\ at_stop' = [at_stop EXCEPT ![StopOrder[i]] = worker_pc[StopOrder[i]]]
    /\ engine_pc' = IF i < Len(StopOrder) THEN "stop_" \o StopOrder[i + 1] ELSE "wake"
    /\ UNCHANGED <<g_shutdown_requested, worker_pc, kernel_event, sched_spin>>
    /\ UNCHANGED <<poolVars, ringVars, respVars, pageVars>>
    /\ UNCHANGED calcVars

\* Engine::stop, line 147: ipc_manager_->trigger_kernel_event()
EngineWake ==
    /\ engine_pc = "wake"
    /\ kernel_event' = TRUE
    /\ engine_pc' = "join_" \o JoinOrder[1]
    /\ UNCHANGED <<g_shutdown_requested, stop_flag_, worker_pc, sched_spin, at_stop>>
    /\ UNCHANGED <<poolVars, ringVars, respVars, pageVars>>
    /\ UNCHANGED calcVars

\* Engine::stop, lines 151-162: join() returns when the thread has left its
\* run_loop; after the last join stop() returns
EngineJoin(i) ==
    /\ engine_pc = "join_" \o JoinOrder[i]
    /\ worker_pc[JoinOrder[i]] = "exited"
    /\ engine_pc' = IF i < Len(JoinOrder) THEN "join_" \o JoinOrder[i + 1] ELSE "returned"
    /\ UNCHANGED <<g_shutdown_requested, stop_flag_, worker_pc, kernel_event, sched_spin, at_stop>>
    /\ UNCHANGED <<poolVars, ringVars, respVars, pageVars>>
    /\ UNCHANGED calcVars

\* a loop test that does not look at stop_flag_
LoopTestNoStop(w) ==
    /\ worker_pc[w] = "loop_test"
    /\ worker_pc' = [worker_pc EXCEPT ![w] = "body"]
    /\ UNCHANGED <<g_shutdown_requested, engine_pc, stop_flag_, kernel_event, sched_spin, at_stop>>
    /\ UNCHANGED <<poolVars, ringVars, respVars, pageVars>>
    /\ UNCHANGED calcVars

\* the test while (!stop_flag_) at the top of a run_loop
\* (request_reader.cpp 45, request_preprocessor.cpp 98, scheduler.cpp 89)
LoopTest(w) ==
    /\ worker_pc[w] = "loop_test"
    /\ worker_pc' = [worker_pc EXCEPT ![w] = IF stop_flag_[w] THEN "exited" ELSE "body"]
    /\ UNCHANGED <<g_shutdown_requested, engine_pc, stop_flag_, kernel_event, sched_spin, at_stop>>
    /\ UNCHANGED <<poolVars, ringVars, respVars, pageVars>>
    /\ UNCHANGED calcVars

\* RequestReader::run_loop, line 55: the reader enters wait_for_notification
ReaderEnterWait ==
    /\ worker_pc["reader"] = "body"
    /\ worker_pc' = [worker_pc EXCEPT !["reader"] = "kernel_wait"]
    /\ UNCHANGED <<g_shutdown_requested, engine_pc, stop_flag_, kernel_event, sched_spin, at_stop>>
    /\ UNCHANGED <<poolVars, ringVars, respVars, pageVars>>
    /\ UNCHANGED calcVars

\* RequestReader::wait_for_notification, lines 169-209: kevent returns with
\* the pending user event (EV_CLEAR resets it) or after its 10 ms timeout
ReaderWaitReturns ==
    /\ worker_pc["reader"] = "kernel_wait"
    /\ kernel_event' = FALSE
    /\ worker_pc' = [worker_pc EXCEPT !["reader"] = "after_wait"]
    /\ UNCHANGED <<g_shutdown_requested, engine_pc, stop_flag_, sched_spin, at_stop>>
    /\ UNCHANGED <<poolVars, ringVars, respVars, pageVars>>
    /\ UNCHANGED calcVars

\* RequestReader::run_loop, lines 58-72: the stop test after the wait, then
\* process_incoming_requests and the 100 us sleep
ReaderAfterWait ==
    /\ worker_pc["reader"] = "after_wait"
    /\ worker_pc' = [worker_pc EXCEPT !["reader"] = IF stop_flag_["reader"] THEN "exited" ELSE "loop_test"]
    /\ UNCHANGED <<g_shutdown_requested, engine_pc, stop_flag_, kernel_event, sched_spin, at_stop>>
    /\ UNCHANGED <<poolVars, ringVars, respVars, pageVars>>
    /\ UNCHANGED calcVars

\* RequestPreprocessor::run_loop, lines 108-243: input_queue_.pop; with a
\* request the loop body handles it and goes back to the loop test, with
\* an empty queue it goes to the else branch
PreprocessorBody ==
    /\ worker_pc["preprocessor"] = "body"
    /\ \E has_request \in BOOLEAN :
         worker_pc' = [worker_pc EXCEPT !["preprocessor"] = IF has_request THEN "loop_test" ELSE "queue_empty"]
    /\ UNCHANGED <<g_shutdown_requested, engine_pc, stop_flag_, kernel_event, sched_spin, at_stop>>
    /\ UNCHANGED <<poolVars, ringVars, respVars, pageVars>>
    /\ UNCHANGED calcVars

\* RequestPreprocessor::run_loop, lines 245-253, and Scheduler::run_loop,
\* lines 185-191: nothing to do, so test stop_flag_ and go to sleep
IdleTest(w) ==
    /\ w \in {"preprocessor", "scheduler"}
    /\ worker_pc[w] = "queue_empty"
    /\ worker_pc' = [worker_pc EXCEPT ![w] = IF stop_flag_[w] THEN "exited" ELSE "sleeping"]
    /\ UNCHANGED <<g_shutdown_requested, engine_pc, stop_flag_, kernel_event, sched_spin, at_stop>>
    /\ UNCHANGED <<poolVars, ringVars, respVars, pageVars>>
    /\ UNCHANGED calcVars

\* the sleep_for of an idle loop ends (100 us, 10 ms)
WakeFromSleep(w) ==
    /\ worker_pc[w] = "sleeping"
    /\ worker_pc' = [worker_pc EXCEPT ![w] = "loop_test"]
    /\ UNCHANGED <<g_shutdown_requested, engine_pc, stop_flag_, kernel_event, sched_spin, at_stop>>
    /\ UNCHANGED <<poolVars, ringVars, respVars, pageVars>>
    /\ UNCHANGED calcVars

\* Scheduler::run_loop, lines 108-184: ingest; with a running sequence its
\* final delta is pushed to the postprocessing queue or, when the queue is
\* full, written with write_delta; with none the loop goes to its idle
\* branch
SchedulerBody ==
    /\ worker_pc["scheduler"] = "body"
    /\ \E has_sequence \in BOOLEAN, queue_full \in BOOLEAN :
         worker_pc' = [worker_pc EXCEPT !["scheduler"] =
                         IF ~has_sequence THEN "queue_empty"
                         ELSE IF queue_full THEN "slot_spin" ELSE "loop_test"]
    /\ sched_spin' = 0
    /\ UNCHANGED <<g_shutdown_requested, engine_pc, stop_flag_, kernel_event, at_stop>>
    /\ UNCHANGED <<poolVars, ringVars, respVars, pageVars>>
    /\ UNCHANGED calcVars

\* ResponseWriter::write_delta called from Scheduler::run_loop (lines
\* 165-183): one turn of the wait for the response slot; the slot is taken,
\* or the spin count passes max_spins and the error is caught by run_loop
SchedulerSlotSpin ==
    /\ worker_pc["scheduler"] = "slot_spin"
    /\ \E slot_free \in BOOLEAN :
         IF slot_free \/ sched_spin + 1 > MaxSpins
           THEN /\ worker_pc' = [worker_pc EXCEPT !["scheduler"] = "loop_test"]
                /\ sched_spin' = 0
           ELSE /\ sched_spin' = sched_spin + 1
                /\ UNCHANGED worker_pc
    /\ UNCHANGED <<g_shutdown_requested, engine_pc, stop_flag_, kernel_event, at_stop>>
    /\ UNCHANGED <<poolVars, ringVars, respVars, pageVars>>
    /\ UNCHANGED calcVars

\* one step of worker thread w in its run_loop
WorkerStep(w) ==
    \/ LoopTest(w)
    \/ (w = "reader" /\ (ReaderEnterWait \/ ReaderWaitReturns \/ ReaderAfterWait))
    \/ (w = "preprocessor" /\ PreprocessorBody)
    \/ IdleTest(w)
    \/ WakeFromSleep(w)
    \/ (w = "scheduler" /\ (SchedulerBody \/ SchedulerSlotSpin))

\* one step of the main thread in run_blocking / stop
EngineStep ==
    \/ EngineStartThreads
    \/ EnginePoll
    \/ \E i \in 1 .. Len(StopOrder) : EngineStopComponent(i)
    \/ EngineWake
    \/ \E i \in 1 .. Len(JoinOrder) : EngineJoin(i)

LifeNext ==
    \/ SignalShutdown
    \/ ProducerNotify
    \/ EngineStartThreads
    \/ EnginePoll
    \/ \E i \in 1 .. Len(StopOrder) : EngineStopComponent(i)
    \/ EngineWake
    \/ \E i \in 1 .. Len(JoinOrder) : EngineJoin(i)
    \/ \E w \in Workers : LoopTest(w)
    \/ ReaderEnterWait
    \/ ReaderWaitReturns
    \/ ReaderAfterWait
    \/ PreprocessorBody
    \/ \E w \in Workers : IdleTest(w)
    \/ \E w \in Workers : WakeFromSleep(w)
    \/ SchedulerBody
    \/ SchedulerSlotSpin

\* The threads of the response path with the scheduler's page handling:
\* requests 1 .. NumPagedRequests reach the preprocessor, the scheduler
\* thread ingests, allocates pages, processes batch output and cleans up
\* until it is stopped or the process aborts
SchedNext ==
    /\ sched_state = "running"
    /\ \/ \E q \in 1 .. NumPagedRequests : PreprocessRequest(q)
       \/ IngestNewSequences
       \/ \E q \in Requests : AllocatePagesForSequence(q)
       \/ \E q \in Requests : ProcessBatchOutput(q)
       \/ \E q \in Requests : Cancel(q)
       \/ CleanupFinishedSequences
       \/ SchedulerShutdown
       \/ PostprocessorPop
       \/ \E W \in ResponseWriters : WriteTicket(W)
       \/ \E W \in ResponseWriters : WriteCas(W)
       \/ \E W \in ResponseWriters : WriteRollback(W)
       \/ \E W \in ResponseWriters : WritePublish(W)
       \/ ClientCas
       \/ ClientCopy
       \/ ClientAdvance

(***************************************************************************)
(* One delta from ResponsePostprocessor through ResponseWriter::write_delta *)
(* and the response slot to ResponseReader::consume_next_delta             *)
(***************************************************************************)
TokenIds == 1 .. 2

FinishReasons == {"STOP", "LENGTH", "USER"}

\* what tokenizer_.decode returns, as sequences of bytes; the last one does
\* not fit the content buffer
DecodedStrings == {<<>>, <<1>>, <<1, 2>>, <<1, 2, 1>>}

\* the placeholder for a token that cannot be decoded
Placeholder == <<9>>

\* a value-initialized ResponseDeltaSlot, and a slot of the zero-filled
\* segment
EmptyDelta ==
    [request_id |-> 0, num_tokens_in_delta |-> 0,
     tokens |-> [i \in 0 .. (MaxTokensPerDelta - 1) |-> 0],
     is_final_delta |-> FALSE, finish_reason |-> "STOP",
     content |-> <<>>, content_len |-> 0]

SeqObjs == 1 .. MaxIngestSeqs

SeqIds == 1 .. NumSeqIds

NoSeq == 0

\* no delta is on its way, no batch has been built, no Sequence exists
CalcInit ==
    /\ pp_delta = EmptyDelta
    /\ shm_slot = EmptyDelta
    /\ out_delta = EmptyDelta
    /\ copy_pc = "idle"
    /\ copy_calls = 0
    /\ batch_details = [sequence_ids |-> <<>>, input_lengths |-> <<>>, total_tokens_in_step |-> 0]
    /\ batch_i = 0
    /\ current_token_offset = 0
    /\ logit_index = 0
    /\ batch_pc = "idle"
    /\ batch_calls = 0
    /\ incoming_sequence_queue_ = <<>>
    /\ running_by_id = [id \in SeqIds |-> NoSeq]
    /\ obj_sequence_id = [o \in SeqObjs |-> 0]
    /\ obj_status = [o \in SeqObjs |-> "NONE"]
    /\ ingest_popped = {}
    /\ ingest_destroyed = {}

\* ResponsePostprocessor::run_loop, lines 56-90: decode the token (the
\* placeholder when the tokenizer throws), build the delta with one token,
\* pass is_final_delta and finish_reason on, copy the content, truncated to
\* MAX_CONTENT_BYTES - 1, and set content_len
BuildDelta ==
    /\ copy_pc \in {"idle", "consumed"}
    /\ copy_calls < MaxDeltas
    /\ copy_calls' = copy_calls + 1
    /\ \E request \in Requests, next_token_id \in TokenIds, is_final \in BOOLEAN,
          reason \in FinishReasons, decoded_content \in DecodedStrings \cup {Placeholder} :
         LET content_len == IF Len(decoded_content) >= MaxContentBytes
                              THEN MaxContentBytes - 1 ELSE Len(decoded_content)
         IN  pp_delta' = [EmptyDelta EXCEPT !.request_id = request,
                                            !.num_tokens_in_delta = 1,
                                            !.tokens[0] = next_token_id,
                                            !.is_final_delta = is_final,
                                            !.finish_reason = reason,
                                            !.content = SubSeq(decoded_content, 1, content_len),
                                            !.content_len = content_len]
    /\ copy_pc' = "built"
    /\ UNCHANGED <<shm_slot, out_delta>>
    /\ UNCHANGED <<batchVars, ingestVars>>
    /\ UNCHANGED <<poolVars, ringVars, respVars, schedVars>>

\* tokens copied by a memcpy of n entries from src over dst
CopyTokens(dst, src, n) ==
    [i \in 0 .. (MaxTokensPerDelta - 1) |-> IF i < n THEN src[i] ELSE dst[i]]

\* ResponseWriter::write_delta, lines 168-208, the fields it writes to the
\* slot: request_id, num_tokens_in_delta (MAX_TOKENS_PER_DELTA when the
\* delta has more), that many tokens, is_final_delta, finish_reason
write_delta(slot, delta) ==
    LET n == IF delta.num_tokens_in_delta > MaxTokensPerDelta
               THEN MaxTokensPerDelta ELSE delta.num_tokens_in_delta
    IN  [slot EXCEPT !.request_id = delta.request_id,
                     !.num_tokens_in_delta = n,
                     !.tokens = CopyTokens(slot.tokens, delta.tokens, n),
                     !.is_final_delta = delta.is_final_delta,
                     !.finish_reason = delta.finish_reason]

\* the postprocessor's call response_writer_.write_delta(delta), line 98
WriteDelta ==
    /\ copy_pc = "built"
    /\ shm_slot' = write_delta(shm_slot, pp_delta)
    /\ copy_pc' = "ready"
    /\ UNCHANGED <<pp_delta, out_delta, copy_calls>>
    /\ UNCHANGED <<batchVars, ingestVars>>
    /\ UNCHANGED <<poolVars, ringVars, respVars, schedVars>>

\* ResponseReader::consume_next_delta, lines 151-165, the fields it copies
\* to out_delta: request_id, num_tokens_in_delta, is_final_delta,
\* finish_reason and num_tokens_in_delta tokens
consume_next_delta(out, slot) ==
    [out EXCEPT !.request_id = slot.request_id,
                !.num_tokens_in_delta = slot.num_tokens_in_delta,
                !.is_final_delta = slot.is_final_delta,
                !.finish_reason = slot.finish_reason,
                !.tokens = CopyTokens(out.tokens, slot.tokens, slot.num_tokens_in_delta)]

\* the client's call, bindings.cpp lines 148-152: result_delta{} is
\* value-initialized and passed as out_delta
ConsumeNextDelta ==
    /\ copy_pc = "ready"
    /\ out_delta' = consume_next_delta(EmptyDelta, shm_slot)
    /\ copy_pc' = "consumed"
    /\ UNCHANGED <<pp_delta, shm_slot, copy_calls>>
    /\ UNCHANGED <<batchVars, ingestVars>>
    /\ UNCHANGED <<poolVars, ringVars, respVars, schedVars>>

\* the postprocessor, the writer and the client, one delta after the other
DeltaCopyNext ==
    \/ BuildDelta
    \/ WriteDelta
    \/ ConsumeNextDelta

(***************************************************************************)
(* One batch step: build_batch_details, then the loop of                   *)
(* process_batch_output over the sequences of the batch                    *)
(***************************************************************************)
\* id lists of at most MaxBatchIds sequences
IdLists == UNION {[1 .. n -> Requests] : n \in 0 .. MaxBatchIds}

\* build_batch_details, lines 373-409, the lambda process_sequence applied
\* to the ids one after the other: an id that is not in running_sequences_
\* is skipped; for the others input_len is 0 (the assignments of lines
\* 388-401 are commented out), the id and input_len are appended and
\* total_tokens grows by input_len
RECURSIVE process_sequences(_, _, _)
process_sequences(details, ids, running) ==
    IF ids = <<>> THEN details
    ELSE LET seq_id == Head(ids)
             input_len == 0
         IN  IF seq_id \notin running
               THEN process_sequences(details, Tail(ids), running)
               ELSE process_sequences(
                        [sequence_ids |-> Append(details.sequence_ids, seq_id),
                         input_lengths |-> Append(details.input_lengths, input_len),
                         total_tokens_in_step |-> (details.total_tokens_in_step + input_len) % SizeModulus],
                        Tail(ids), running)

\* Scheduler::build_batch_details, lines 348-437: the prefill ids, then the
\* decode ids (lines 411-416); total_tokens_in_step = total_tokens
BuildBatchDetails ==
    /\ batch_pc = "idle"
    /\ batch_calls < MaxBatches
    /\ batch_calls' = batch_calls + 1
    /\ \E prefill_seq_ids \in IdLists, decode_seq_ids \in IdLists, running \in SUBSET Requests :
         batch_details' = process_sequences(
                              [sequence_ids |-> <<>>, input_lengths |-> <<>>, total_tokens_in_step |-> 0],
                              prefill_seq_ids \o decode_seq_ids, running)
    /\ batch_i' = 0
    /\ current_token_offset' = 0
    /\ logit_index' = 0
    /\ batch_pc' = "output"
    /\ UNCHANGED <<copyVars, ingestVars>>
    /\ UNCHANGED <<poolVars, ringVars, respVars, schedVars>>

\* (int)x for a size_t x
ToInt(x) == IF x >= SizeModulus \div 2 THEN x - SizeModulus ELSE x

\* process_batch_output, lines 461-494 and 619, one turn of the loop:
\* logit_index = current_token_offset + num_tokens_for_seq - 1 in size_t,
\* the row read is (int)logit_index, and current_token_offset grows by
\* num_tokens_for_seq
ProcessBatchRow ==
    /\ batch_pc = "output"
    /\ batch_i < Len(batch_details.sequence_ids)
    /\ LET num_tokens_for_seq == batch_details.input_lengths[batch_i + 1]
       IN  /\ logit_index' = ToInt((current_token_offset + num_tokens_for_seq - 1 + SizeModulus) % SizeModulus)
           /\ current_token_offset' = (current_token_offset + num_tokens_for_seq) % SizeModulus
    /\ batch_i' = batch_i + 1
    /\ UNCHANGED <<batch_details, batch_pc, batch_calls>>
    /\ UNCHANGED <<copyVars, ingestVars>>
    /\ UNCHANGED <<poolVars, ringVars, respVars, schedVars>>

\* process_batch_output, line 463: the loop ends after the last sequence
ProcessBatchEnd ==
    /\ batch_pc = "output"
    /\ batch_i = Len(batch_details.sequence_ids)
    /\ batch_pc' = "idle"
    /\ UNCHANGED <<batch_details, batch_i, current_token_offset, logit_index, batch_calls>>
    /\ UNCHANGED <<copyVars, ingestVars>>
    /\ UNCHANGED <<poolVars, ringVars, respVars, schedVars>>

\* the scheduler thread in one batch step
BatchNext ==
    \/ BuildBatchDetails
    \/ ProcessBatchRow
    \/ ProcessBatchEnd

(***************************************************************************)
(* ingest_new_sequences with running_sequences_ as the map it is: from     *)
(* sequence_id to the Sequence object                                      *)
(***************************************************************************)
\* number of entries of running_sequences_
RunningSize(running) == Cardinality({id \in SeqIds : running[id] # NoSeq})

\* RequestPreprocessor::run_loop, lines 218-233: a Sequence is constructed
\* with the request_id the client gave as its sequence_id, status WAITING,
\* and pushed to the Sequence queue
PushSequence(o, id) ==
    /\ obj_status[o] = "NONE"
    /\ \A n \in SeqObjs : n < o => obj_status[n] # "NONE"
    /\ Len(incoming_sequence_queue_) < IngestQueueCap
    /\ obj_status' = [obj_status EXCEPT ![o] = "WAITING"]
    /\ obj_sequence_id' = [obj_sequence_id EXCEPT ![o] = id]
    /\ incoming_sequence_queue_' = Append(incoming_sequence_queue_, o)
    /\ UNCHANGED <<running_by_id, ingest_popped, ingest_destroyed>>
    /\ UNCHANGED <<copyVars, batchVars>>
    /\ UNCHANGED <<poolVars, ringVars, respVars, schedVars>>

\* ingest_new_sequences, lines 221-250, the loop: while
\* running_sequences_.size() < max_num_seqs_ and the queue gives a Sequence,
\* set its status PREFILLING and emplace it under its sequence_id.  emplace
\* does not insert when the key is present: the Sequence is then owned by
\* no entry and is destroyed, in emplace or when seq_ptr is assigned or
\* leaves its scope.
RECURSIVE IngestLoop(_)
IngestLoop(st) ==
    IF ~(RunningSize(st.running) < IngestMaxNumSeqs /\ st.queue # <<>>)
      THEN st
      ELSE LET o == Head(st.queue)
               seq_id == obj_sequence_id[o]
               inserted == st.running[seq_id] = NoSeq
           IN  IngestLoop([queue |-> Tail(st.queue),
                           running |-> IF inserted THEN [st.running EXCEPT ![seq_id] = o] ELSE st.running,
                           status |-> [st.status EXCEPT ![o] = "PREFILLING"],
                           popped |-> st.popped \cup {o},
                           destroyed |-> IF inserted THEN st.destroyed ELSE st.destroyed \cup {o}])

\* Scheduler::ingest_new_sequences, lines 206-256
IngestBySequenceId ==
    /\ incoming_sequence_queue_ # <<>>
    /\ RunningSize(running_by_id) < IngestMaxNumSeqs
    /\ LET st == IngestLoop([queue |-> incoming_sequence_queue_, running |-> running_by_id,
                             status |-> obj_status, popped |-> ingest_popped,
                             destroyed |-> ingest_destroyed])
       IN  /\ incoming_sequence_queue_' = st.queue
           /\ running_by_id' = st.running
           /\ obj_status' = st.status
           /\ ingest_popped' = st.popped
           /\ ingest_destroyed' = st.destroyed
    /\ UNCHANGED obj_sequence_id
    /\ UNCHANGED <<copyVars, batchVars>>
    /\ UNCHANGED <<poolVars, ringVars, respVars, schedVars>>

\* Scheduler::run_loop, lines 111-119: the Sequence at
\* running_sequences_.begin() is moved out and its entry erased
EraseRunning(id) ==
    /\ running_by_id[id] # NoSeq
    /\ running_by_id' = [running_by_id EXCEPT ![id] = NoSeq]
    /\ UNCHANGED <<incoming_sequence_queue_, obj_sequence_id, obj_status, ingest_popped, ingest_destroyed>>
    /\ UNCHANGED <<copyVars, batchVars>>
    /\ UNCHANGED <<poolVars, ringVars, respVars, schedVars>>

\* the preprocessor and the scheduler thread around ingest_new_sequences
IngestNext ==
    \/ \E o \in SeqObjs, id \in SeqIds : PushSequence(o, id)
    \/ IngestBySequenceId
    \/ \E id \in SeqIds : EraseRunning(id)

(***************************************************************************)
(* Specifications                                                          *)
(***************************************************************************)
Init == PoolInit /\ RingInit /\ RespInit /\ SchedInit /\ CalcInit

PoolSpec == Init /\ [][PoolNext]_vars

PoolSeqSpec == Init /\ [][PoolSeqNext]_vars

PoolApiSpec == Init /\ [][PoolApiNext]_vars

SharedFreeSpec == Init /\ [][SharedFreeNext]_vars

\* the state when the worker threads of the contention test start
ChurnInit == ChurnPoolInit /\ RingInit /\ RespInit /\ SchedInit /\ CalcInit

ChurnSpec == ChurnInit /\ [][ChurnNext]_vars

\* RequestWriter threads, the RequestReader thread and the preprocessor
RingSpec == Init /\ [][RingNext]_vars

LegacyRingSpec == Init /\ [][LegacyRingNext]_vars

DeltaCopySpec == Init /\ [][DeltaCopyNext]_vars

BatchSpec == Init /\ [][BatchNext]_vars

IngestSpec == Init /\ [][IngestNext]_vars

\* a step of the reader thread in process_incoming_requests
ReaderStep == ReaderLoad \/ ReaderCas \/ ReaderCopy \/ ReaderAdvance

\* a step of producer w inside a submit_request_to_engine call it has begun
WriterStep(w) == SubmitCas(w) \/ SubmitFill(w) \/ SubmitPublish(w)

\* The request ring with its threads scheduled: the reader keeps running
\* (run_loop calls process_incoming_requests after every wait), the
\* preprocessor keeps popping the RawRequest queue, and a producer inside a
\* call goes on; no producer is forced to begin another call.
RingLiveSpec ==
    /\ Init
    /\ [][RingNext]_vars
    /\ WF_vars(ReaderStep)
    /\ WF_vars(PreprocessorPop)
    /\ \A w \in Writers : WF_vars(WriterStep(w))

FillRingSpec == Init /\ [][FillRingNext]_vars

TransportSpec == Init /\ [][TransportNext]_vars

ResponseSpec == Init /\ [][ResponseNext]_vars

MockResponseSpec == Init /\ [][MockResponseNext]_vars

SchedSpec == Init /\ [][SchedNext]_vars

\* The engine's threads from run_blocking to the return of stop.  Every
\* thread that can take a step eventually does (the threads are scheduled,
\* sleeps and kevent timeouts elapse); the signal is not forced to arrive.
LifeSpec ==
    /\ Init
    /\ [][LifeNext]_vars
    /\ WF_vars(EngineStep)
    /\ \A w \in Workers : WF_vars(WorkerStep(w))

(***************************************************************************)
(* Page-pool properties                                                    *)
(***************************************************************************)
\* C1: a page_id returned by allocate_page is not returned by another
\* allocate_page before free_page has pushed its node back on the free
\* stack: at most one outstanding allocation per page.
NoDoubleAllocation == \A p \in Pages : owners[p] <= 1

\* C2: in every reachable state, also in the middle of a call, a page's
\* ref_count is 0 exactly when its node is reachable from head_.
FreeStackRefCountDuality ==
    \A p \in Pages : (ref_count[p] = 0) <=> (p \in OnFreeStack)

WritersIdle == \A w \in Writers : w_pc[w] = "idle"

\* the request reader is between two calls of process_incoming_requests
ReaderIdle == r_pc = "idle"

\* a call of process_incoming_requests made now would consume nothing
ReaderPassIsEmpty ==
    \/ request_producer_idx = request_consumer_idx
    \/ request_state[SlotOf(request_consumer_idx)] # "READY"

\* nothing is in progress on the request ring and the reader cannot make
\* progress on its own
RingSettled == WritersIdle /\ ReaderIdle /\ ReaderPassIsEmpty

\* the legal slot state changes of the request ring
RequestCycle ==
    {<<"FREE", "WRITING">>, <<"WRITING", "READY">>, <<"READY", "READING">>, <<"READING", "FREE">>}

\* the legal slot state changes of the response ring
ResponseCycle ==
    {<<"FREE_FOR_CPP_WRITER", "CPP_WRITING">>, <<"CPP_WRITING", "READY_FOR_PYTHON">>,
     <<"READY_FOR_PYTHON", "PYTHON_READING">>, <<"PYTHON_READING", "FREE_FOR_CPP_WRITER">>}

\* requests for which the preprocessor constructed a Sequence
SequenceConstructed == {q \in Requests : pre_outcome[q] \in {"enqueued", "queue_full"}}

\* no thread of the response path has anything left to do
ResponseSettled == ~ENABLED ResponseNext /\ ~ENABLED MockResponseNext

(***************************************************************************)
(* Transport properties                                                    *)
(***************************************************************************)
\* C4: for the request ring and the response ring, at all times
\* consumer_index <= producer_index and producer_index - consumer_index <=
\* NUM_SLOTS, also while a producer holding a ticket waits for its slot and
\* after a producer has timed out.
RingIndexBounds ==
    /\ request_consumer_idx <= request_producer_idx
    /\ request_producer_idx - request_consumer_idx <= NumSlots
    /\ response_consumer_idx <= response_producer_idx
    /\ response_producer_idx - response_consumer_idx <= NumSlots

\* C5: every state change of a request slot and of a response slot is one
\* step of the cycle FREE -> WRITING -> READY -> READING -> FREE: none
\* skips a state or goes backwards.
SlotCycle ==
    [][/\ \A s \in Slots : request_state'[s] # request_state[s]
                             => <<request_state[s], request_state'[s]>> \in RequestCycle
       /\ \A s \in Slots : response_state'[s] # response_state[s]
                             => <<response_state[s], response_state'[s]>> \in ResponseCycle]_vars

\* C6: a submission that times out is taken back out of producer_index:
\* producer_index counts the tickets taken minus the tickets that timed
\* out, on both rings, and the tickets held by producers still in flight
\* stay distinct and below producer_index.
TimeoutRollsBack ==
    /\ request_producer_idx = rq_tickets - rq_timeouts
    /\ response_producer_idx = rs_tickets - rs_timeouts
    /\ \A w \in Writers : w_pc[w] # "idle" => w_ticket[w] < request_producer_idx
    /\ \A v, w \in Writers : (v # w /\ w_pc[v] # "idle" /\ w_pc[w] # "idle") => w_ticket[v] # w_ticket[w]
    /\ \A V, W \in ResponseWriters :
           (V # W /\ rw_pc[V] \in {"wait", "fill", "rollback"} /\ rw_pc[W] \in {"wait", "fill", "rollback"})
               => rw_ticket[V] # rw_ticket[W]

\* C7: a drop (RawRequest queue full, or prompt read failed) does not block
\* the transport: whenever no producer is inside a call, none has timed
\* out and the reader is between passes, a request published READY in any
\* slot implies that the slot at consumer_idx is READY, so that the next
\* pass of the reader consumes and goes on to the later slots.
DropDoesNotBlock ==
    (WritersIdle /\ ReaderIdle /\ rq_timeouts = 0 /\ (\E s \in Slots : request_state[s] = "READY"))
        => request_state[SlotOf(request_consumer_idx)] = "READY"

\* C8: for each request_id the client reads the deltas in the order in
\* which their tokens were generated: the token indices in the client's
\* log of a request are strictly increasing.
DeltasInGenerationOrder ==
    \A q \in Requests : \A i, j \in 1 .. Len(client_log[q]) :
        i < j => client_log[q][i].token_index < client_log[q][j].token_index

\* C9: a request receives nothing only if no Sequence was constructed for
\* it; otherwise it receives deltas ending in exactly one final delta: no
\* delta follows a final one, and once the pipeline has nothing left to do
\* every request with a Sequence has its final delta and every other
\* request has received nothing.
FinalDeltaLast ==
    /\ \A q \in Requests : \A i \in 1 .. Len(client_log[q]) :
           client_log[q][i].is_final_delta => i = Len(client_log[q])
    /\ ResponseSettled =>
           \A q \in Requests :
               IF q \in SequenceConstructed
                 THEN Len(client_log[q]) > 0 /\ client_log[q][Len(client_log[q])].is_final_delta
                 ELSE client_log[q] = <<>>

\* C10: with several producers and one reader every submission is
\* accounted for exactly once: no request is taken from a slot twice, a
\* slot that is READY or READING holds a request that is published and not
\* yet taken, and when nothing is in progress and the reader cannot go on,
\* every submission has failed with the timeout error, was dropped, or was
\* consumed; none is left published in a slot.
SubmissionsAccounted ==
    /\ \A q \in ReqIds : rq_reads[q] <= 1
    /\ \A s \in Slots : request_state[s] \in {"READY", "READING"}
                          => rq_outcome[request_id[s]] = "published"
    /\ RingSettled => \A q \in ReqIds : rq_outcome[q] \in {"none", "timeout", "dropped", "consumed"}


(***************************************************************************)
(* Scheduler page-management properties                                    *)
(***************************************************************************)
\* C11: when allocate_pages_for_sequence returns false, the call has rolled
\* back: the sequence's page_table is as it was before the call (none of
\* the pages taken in the call remains in it), and the pool is as it was:
\* the same free counter and the same pages on the free stack.
AllocFailureRollsBack ==
    [][(sched_alloc_calls' = sched_alloc_calls + 1 /\ ~alloc_result'.ok)
         => /\ page_table' = page_table
            /\ num_free_pages_' = num_free_pages_
            /\ OnFreeStack' = OnFreeStack]_vars

\* every submitted sequence has finished: nothing is pending in the
\* preprocessor, in the Sequence queue or in running_sequences_
AllSequencesFinished ==
    /\ \A q \in 1 .. NumPagedRequests : pre_outcome[q] # "pending"
    /\ processed_sequence_queue_ = <<>>
    /\ running_sequences_ = {}

\* C12: every page of the page_table of a sequence that leaves
\* running_sequences_ is released exactly once (no free_page is called on a
\* page that was already released), and once all submitted sequences have
\* finished the pool is whole again: get_num_free_pages() = N with every
\* page on the free stack.
PagesReleasedExactlyOnce ==
    /\ stale_frees = 0
    /\ AllSequencesFinished => (num_free_pages_ = NumPages /\ OnFreeStack = Pages)

\* C13: once the cancelled flag of a running sequence is set, a step that
\* emits a delta for that sequence (to the postprocessing queue or to the
\* scheduler's own write_delta) emits a final delta with finish_reason
\* USER, no step generates a further token for it, and when it leaves
\* running_sequences_ every page of its page_table is on the free stack.
CancelledEndsWithUser ==
    [][\A q \in Requests :
         (cancelled[q] /\ q \in running_sequences_) =>
           /\ generation_len'[q] = generation_len[q]
           /\ (Len(postprocessing_queue_') = Len(postprocessing_queue_) + 1
                 /\ postprocessing_queue_'[Len(postprocessing_queue_')].request_id = q)
                => LET d == postprocessing_queue_'[Len(postprocessing_queue_')]
                   IN  d.is_final_delta /\ d.finish_reason = "USER"
           /\ (rw_pc["scheduler"] = "idle" /\ rw_pc'["scheduler"] = "ticket"
                 /\ rw_delta'["scheduler"].request_id = q)
                => LET d == rw_delta'["scheduler"]
                   IN  d.is_final_delta /\ d.finish_reason = "USER"
           /\ q \notin running_sequences_'
                => TablePages(page_table[q]) \subseteq OnFreeStack']_vars

\* the deltas the scheduler thread emits in a step: the PostprocessingData
\* it pushes to the postprocessing queue (scheduler.cpp lines 155, 583) and
\* the delta it hands to write_delta itself (lines 165-179, 593-603)
EmittedDeltas ==
    (IF Len(postprocessing_queue_') = Len(postprocessing_queue_) + 1
       THEN {postprocessing_queue_'[Len(postprocessing_queue_')]} ELSE {})
    \cup
    (IF rw_pc["scheduler"] = "idle" /\ rw_pc'["scheduler"] = "ticket"
       THEN {rw_delta'["scheduler"]} ELSE {})

\* C14: every delta emitted for a sequence carries one newly generated
\* token.  The delta of a token that is not a stop token is final exactly
\* when the token is the M-th (M = max_generated_tokens), and then its
\* reason is LENGTH; the delta for a stop token sampled before the M-th
\* token is final with reason STOP.
DeltasFollowStopCriteria ==
    [][\A d \in EmittedDeltas :
         LET q == d.request_id
         IN  /\ generation_len'[q] = generation_len[q] + 1
             /\ d.token_index = generation_len[q]
             /\ ~stop_sampled' =>
                  /\ d.is_final_delta <=> (generation_len'[q] = MaxGenTokens)
                  /\ d.is_final_delta => d.finish_reason = "LENGTH"
             /\ (stop_sampled' /\ generation_len'[q] < MaxGenTokens) =>
                  (d.is_final_delta /\ d.finish_reason = "STOP")]_vars

\* the deltas of request q that exist anywhere: in the postprocessing
\* queue, in a writer's hands, in a response slot, or read by the client
DeltasOf(q) ==
    {d \in {postprocessing_queue_[i] : i \in 1 .. Len(postprocessing_queue_)}
           \cup {rw_delta[W] : W \in ResponseWriters}
           \cup {response_delta[s] : s \in Slots}
           \cup {client_log[q][i] : i \in 1 .. Len(client_log[q])} :
       d.request_id = q}

\* a sequence whose prompt needs more pages than the pool has
Oversized(q) == RequiredBlocks(PromptLen(q)) > NumPages

\* C15: a sequence whose prompt needs more pages than the pool can supply
\* is never processed in a batch (no token is generated for it), the only
\* delta made for it is a final one with finish_reason MEMORY, which it has
\* got once it has left running_sequences_, and it holds no pages.
OversizedGetsMemory ==
    \A q \in Requests :
      Oversized(q) =>
        /\ generation_len[q] = 0
        /\ page_table[q] = <<>>
        /\ \A d \in DeltasOf(q) : d.is_final_delta /\ d.finish_reason = "MEMORY"
        /\ (seq_status[q] \notin {"NONE", "WAITING"} /\ q \notin running_sequences_)
             => DeltasOf(q) # {}

\* C16: a sequence whose delta could not be pushed to the postprocessing
\* queue (process_batch_output sets it to ERROR and writes the delta itself
\* as the final one) is not lost: its final delta, with its finish reason,
\* is in the scheduler's write_delta call, in a response slot, or with the
\* client.
FallbackDeltaNotLost ==
    \A q \in Requests :
      seq_status[q] = "ERROR" => \E d \in DeltasOf(q) : d.is_final_delta

(***************************************************************************)
(* Shutdown                                                                *)
(***************************************************************************)
\* C17: once the shutdown flag is set, Engine::stop signals every worker,
\* wakes the reader, joins the worker threads and returns: eventually stop
\* has returned and every worker has left its run_loop, wherever it was
\* (in the kernel wait, asleep on an empty queue, spinning for a response
\* slot).
ShutdownTerminates ==
    g_shutdown_requested ~> (engine_pc = "returned" /\ \A w \in Workers : worker_pc[w] = "exited")

\* stop has returned after it found the reader in the kernel wait, the
\* preprocessor asleep on its empty queue and the scheduler spinning for a
\* response slot
ShutdownWitness ==
    /\ engine_pc = "returned"
    /\ \A w \in Workers : worker_pc[w] = "exited"
    /\ at_stop["reader"] = "kernel_wait"
    /\ at_stop["preprocessor"] = "sleeping"
    /\ at_stop["scheduler"] = "slot_spin"

\* C18: when the scheduler has been shut down (run_loop left, destructor
\* run), every page, also those held by sequences that were still running,
\* is back in the pool: get_num_free_pages() = N with every page on the
\* free stack.
ShutdownReturnsPages ==
    sched_state = "stopped" => (num_free_pages_ = NumPages /\ OnFreeStack = Pages)

(***************************************************************************)
(* Shared pages and concurrent frees                                       *)
(***************************************************************************)
\* references on page p held by the threads
RECURSIVE HeldRefs(_, _)
HeldRefs(p, T) ==
    IF T = {} THEN 0
    ELSE LET t == CHOOSE u \in T : TRUE IN held[t][p] + HeldRefs(p, T \ {t})

\* thread t is inside push_free_list
InPush(t) == tpc[t] \in {"push_load", "push_link", "push_cas", "push_inc"}

\* C19: a page that was allocated once and add_ref'ed k-1 times goes back
\* to the free stack on the k-th free_page and not before.  While a
\* reference is left (ref_count > 0) the page is not on the free stack and
\* no thread is pushing it; when the frees overlap, at most one thread
\* pushes the node; and when no call is in progress ref_count is the
\* number of references held, the free stack holds exactly the pages with
\* ref_count 0 and get_num_free_pages() counts them, so that a page
\* allocated again has ref_count 1.
SharedPageFreedOnce ==
    /\ \A p \in Pages :
         /\ ref_count[p] > 0 => (p \notin OnFreeStack /\ \A t \in AllThreads : ~(InPush(t) /\ t_node[t] = p))
         /\ Cardinality({t \in AllThreads : InPush(t) /\ t_node[t] = p}) <= 1
    /\ Quiescent =>
         /\ \A p \in Pages : ref_count[p] = HeldRefs(p, AllThreads)
         /\ OnFreeStack = {p \in Pages : ref_count[p] = 0}
         /\ num_free_pages_ = Cardinality(OnFreeStack)

\* a page whose previous allocation had two references, freed by two
\* threads, has been allocated again and has ref_count 1
SharedPageWitness ==
    /\ Quiescent
    /\ \E p \in Pages :
         /\ page_hist[p].after_shared
         /\ page_hist[p].refs = 1
         /\ ref_count[p] = 1
         /\ p \notin OnFreeStack

\* number of nodes linked from head_, at most k (a list longer than the
\* pool has a cycle)
RECURSIVE StackLength(_, _)
StackLength(n, k) ==
    IF n = NoNode \/ k = 0 THEN 0 ELSE 1 + StackLength(next[n], k - 1)

\* C20: after a run in which the threads free a page they hold and then
\* allocate a replacement, when no call is in progress and every page that
\* was held has been freed, get_num_free_pages() = N, the free stack has N
\* nodes and every page is on it: no page was lost or counted twice.
ChurnRestoresPool ==
    (Quiescent /\ \A t \in AllThreads : HoldsNothing(t)) =>
      /\ num_free_pages_ = NumPages
      /\ StackLength(head, NumPages + 1) = NumPages
      /\ OnFreeStack = Pages

(***************************************************************************)
(* Contract of the allocator for callers that do not overlap               *)
(***************************************************************************)
\* no thread holds a reference on any page
NothingHeld == \A t \in Threads : HoldsNothing(t)

\* C21: starting from a full pool of N pages, after K <= N pages were
\* allocated and every reference on them was given back with free_page, in
\* any order, get_num_free_pages() is N again and N allocate_page calls in a
\* row return the N pages of the pool, each once.
ReleaseRestoresPool ==
    (Quiescent /\ NothingHeld) =>
        /\ num_free_pages_ = NumPages
        /\ LET again == AllocateN(PoolState, NumPages)
           IN  /\ {again[i] : i \in 1 .. NumPages} = Pages
               /\ \A i, j \in 1 .. NumPages : i # j => again[i] # again[j]

\* C21 witness: all N pages were allocated, by N calls, and freed in an
\* order that is neither the order of allocation nor its reverse.
ReleaseRestoresPoolWitness ==
    /\ Quiescent
    /\ NothingHeld
    /\ alloc_calls = NumPages
    /\ addref_calls = 0
    /\ free_log = <<1, 2, 0>>

\* thread t returns from allocate_page with nullopt in this step
ReturnsNullopt(t) == tpc[t] = "pop_read" /\ tpc'[t] = "idle"

\* C22: allocate_page returns nullopt only on a pool with no free page
\* (every ref_count >= 1, get_num_free_pages() = 0) and then changes
\* nothing; between calls, as soon as free_page has released a held page
\* (some ref_count is 0) the free stack is not empty, so that a retried
\* allocate_page finds a node and does not return nullopt.
ExhaustedAllocateFails ==
    [][/\ \A t \in Threads : ReturnsNullopt(t) =>
              /\ \A p \in Pages : ref_count[p] >= 1
              /\ num_free_pages_ = 0
              /\ UNCHANGED <<ref_count, next, head, num_free_pages_, held, owners>>
       /\ (Quiescent /\ \E p \in Pages : ref_count[p] = 0) =>
              /\ head # NoNode
              /\ num_free_pages_ >= 1
              /\ allocate_page(PoolState).page # NoNode]_vars

\* C22 witness: an allocate_page call returned nullopt, a page was freed,
\* and the call made after that free is about to return a page.
ExhaustedAllocateWitness ==
    /\ last_call = [op |-> "allocate_page", page_id |-> NoNode, result |-> "nullopt"]
    /\ alloc_calls = NumPages + 2
    /\ \E t \in Threads :
          /\ tpc[t] = "alloc_ret"
          /\ free_log = <<t_cur[t]>>
          /\ ref_count[t_cur[t]] = 1

\* thread t returns from allocate_page with a page in this step
ReturnsPage(t) == tpc[t] = "alloc_ret" /\ tpc'[t] = "idle"

\* C27: in single-threaded use, when pages have been freed and not handed
\* out again, allocate_page returns the page freed last among them, and the
\* free stack holds them in the order of their release, latest on top: pages
\* freed in the order p1..pk come back in the order pk..p1.
FreeListIsLifo ==
    [][/\ \A t \in Threads : (ReturnsPage(t) /\ free_log # <<>>) => t_cur[t] = free_log[Len(free_log)]
       /\ Quiescent =>
              LET k == Len(free_log)
                  again == AllocateN(PoolState, k)
              IN  \A i \in 1 .. k : again[i] = free_log[k + 1 - i]]_vars

\* C27 witness: pages 0 and 2 were freed in this order while page 1 stayed
\* in use, and the allocate_page call in progress returns page 2.
FreeListIsLifoWitness ==
    /\ free_log = <<0, 2>>
    /\ ref_count[1] = 1
    /\ \E t \in Threads : tpc[t] = "alloc_ret" /\ t_cur[t] = 2

\* a get_page call, or a free_page / add_ref call with a page id the caller
\* does not hold, is made in this step
ApiCallMade == api_calls' = api_calls + 1

\* C23: free_page (double release) or add_ref on a page whose ref_count is 0
\* fails and changes nothing: the call does not return normally, the
\* ref_count stays 0, and next, head_ and the free counter stay as they are.
UnheldCallChangesNothing ==
    [][\A p \in Pages :
          (/\ ApiCallMade
           /\ last_call'.op \in {"free_page", "add_ref"}
           /\ last_call'.page_id = p
           /\ ref_count[p] = 0)
          => /\ last_call'.result # "ok"
             /\ ref_count'[p] = 0
             /\ UNCHANGED <<next, head, num_free_pages_>>]_vars

\* C24: a get_page (const or non-const), add_ref or free_page call with a
\* page_id >= size() ends with the out-of-range error and leaves every
\* ref_count, the free stack, the free counter and the caller's references
\* unchanged.
OutOfRangeRejected ==
    [][(ApiCallMade /\ last_call'.page_id >= NumPages)
          => /\ last_call'.result = "out_of_range"
             /\ UNCHANGED <<ref_count, next, head, num_free_pages_, held, tpc>>]_vars

\* C24 witness: free_page was called with the boundary id size() while a
\* page was in use, and threw.
OutOfRangeWitness ==
    /\ last_call = [op |-> "free_page", page_id |-> NumPages, result |-> "out_of_range"]
    /\ \E p \in Pages : ref_count[p] = 1
    /\ num_free_pages_ = NumPages - 1

PreprocessErrorEmitsDelta ==
    ResponseSettled =>
        \A q \in Requests :
            pre_outcome[q] = "no_sequence" =>
                \E i \in 1 .. Len(client_log[q]) : client_log[q][i].is_final_delta

RequestSlotWriters(s) ==
    {w \in Writers : w_pc[w] \in {"fill", "publish"} /\ SlotOf(w_ticket[w]) = s}

\* the request reader is between its CAS READY -> READING and its store of
\* FREE on request slot s (request_reader.cpp lines 235-282)
RequestSlotRead(s) == r_pc = "copy" /\ SlotOf(r_cons) = s

\* the request reader has passed the loop test cons != prod and is before
\* its CAS: lines 223-224 read slot.request_id, an argument of
\* spdlog::trace, whatever the state of the slot
RequestSlotTraceRead(s) == r_pc = "loop" /\ r_cons # r_prod /\ SlotOf(r_cons) = s

\* engine threads between the CAS FREE_FOR_CPP_WRITER -> CPP_WRITING and
\* the store of READY_FOR_PYTHON on response slot s
ResponseSlotWriters(s) ==
    {W \in ResponseWriters : rw_pc[W] = "fill" /\ SlotOf(rw_ticket[W]) = s}

\* the client is between its CAS READY_FOR_PYTHON -> PYTHON_READING and its
\* store of FREE_FOR_CPP_WRITER on response slot s
ResponseSlotRead(s) == c_pc = "copy" /\ SlotOf(c_cons) = s

\* C29: at no time do two threads access the payload of the same slot: a
\* slot is WRITING exactly while one producer is writing it, and no consumer
\* reads it then; it is READING exactly while the consumer is reading it,
\* and no producer writes it then.  For the request ring and the response
\* ring.
SlotPayloadExclusive ==
    \A s \in Slots :
        /\ Cardinality(RequestSlotWriters(s)) <= 1
        /\ (RequestSlotWriters(s) # {}) <=> (request_state[s] = "WRITING")
        /\ RequestSlotTraceRead(s) => RequestSlotWriters(s) = {}
        /\ RequestSlotRead(s) <=> (request_state[s] = "READING")
        /\ Cardinality(ResponseSlotWriters(s)) <= 1
        /\ (ResponseSlotWriters(s) # {}) <=> (response_state[s] = "CPP_WRITING")
        /\ ResponseSlotRead(s) <=> (response_state[s] = "PYTHON_READING")

(***************************************************************************)
(* Ownership of the pages in a page_table                                  *)
(***************************************************************************)
\* C30: in every state of the scheduler, every page_id in the page_table of
\* a running sequence has ref_count >= 1, is in that page_table once and in
\* no other sequence's, also after allocate_pages_for_sequence has
\* returned false; and free_sequence_pages has never called free_page on a
\* page whose ref_count was already 0.
PageTableEntriesHeld ==
    /\ \A q \in running_sequences_ :
         \A i \in 1 .. Len(page_table[q]) :
             /\ ref_count[page_table[q][i]] >= 1
             /\ \A j \in 1 .. Len(page_table[q]) : page_table[q][j] = page_table[q][i] => j = i
             /\ \A o \in running_sequences_ \ {q} :
                    \A j \in 1 .. Len(page_table[o]) : page_table[o][j] # page_table[q][i]
    /\ stale_frees = 0

(***************************************************************************)
(* Sequence status and pages while a sequence runs                         *)
(***************************************************************************)
\* C31: whenever a sequence is PREFILLING or DECODING, its page_table has
\* room for all its tokens: page_table.size() x TOKEN_CAPACITY_PER_PAGE >=
\* tokens.size(), from the moment ingest sets PREFILLING and after every
\* token append.
PagesCoverTokens ==
    \A q \in Requests :
        seq_status[q] \in {"PREFILLING", "DECODING"} =>
            Len(page_table[q]) * TokenCapacityPerPage >= get_logical_len(q)

\* the steps a status may take: construction, ingest, and the ends of a
\* step of a PREFILLING or DECODING sequence
StatusEdges ==
    {<<"NONE", "WAITING">>, <<"WAITING", "PREFILLING">>, <<"PREFILLING", "DECODING">>,
     <<"PREFILLING", "COMPLETED">>, <<"PREFILLING", "ERROR">>,
     <<"DECODING", "COMPLETED">>, <<"DECODING", "ERROR">>}

PrefillLeadsToDecoding ==
    [][\A q \in Requests :
         (seq_status[q] = "PREFILLING" /\ generation_len[q] = 0 /\ generation_len'[q] = 1
            /\ seq_status'[q] \notin {"COMPLETED", "ERROR"})
           => seq_status'[q] = "DECODING"]_vars

(***************************************************************************)
(* Progress of the request ring                                            *)
(***************************************************************************)
\* request r is in a slot that its producer has published READY
Published(r) == \E s \in Slots : request_state[s] = "READY" /\ request_id[s] = r

\* the reader has dropped a request (prompt unreadable, or RawRequest queue
\* full)
SomeRequestDropped == \E r \in ReqIds : rq_outcome[r] = "dropped"

\* C34: after a request-ring submission has failed with a timeout, every
\* request that is published READY is eventually taken by the reader and
\* moved to the RawRequest queue, as long as the reader keeps running and
\* drops nothing: the timed-out ticket does not leave consumer_index at a
\* slot that no producer is going to fill.
TimeoutDoesNotBlock ==
    \A r \in ReqIds :
        (rq_timeouts > 0 /\ Published(r)) ~> (rq_outcome[r] = "consumed" \/ SomeRequestDropped)

(***************************************************************************)
(* The delta the client receives                                           *)
(***************************************************************************)
\* the fields that write_delta and consume_next_delta name, equal in the
\* delta d the postprocessor built and the delta o the client obtained
SameTokenFields(d, o) ==
    /\ o.request_id = d.request_id
    /\ o.num_tokens_in_delta = d.num_tokens_in_delta
    /\ \A i \in 0 .. (MaxTokensPerDelta - 1) : i < d.num_tokens_in_delta => o.tokens[i] = d.tokens[i]
    /\ o.is_final_delta = d.is_final_delta
    /\ o.finish_reason = d.finish_reason

\* C35: a delta passed to write_delta and then obtained with
\* consume_next_delta has the same request_id, token ids, is_final_delta,
\* finish_reason and decoded content with its length as the delta the
\* postprocessor built.
DeltaArrivesUnchanged ==
    copy_pc = "consumed" =>
        /\ SameTokenFields(pp_delta, out_delta)
        /\ out_delta.content = pp_delta.content
        /\ out_delta.content_len = pp_delta.content_len

(***************************************************************************)
(* The logit row of a sequence of the batch                                *)
(***************************************************************************)
\* sum of the first k input_lengths of the batch
RECURSIVE SumInputLengths(_)
SumInputLengths(k) ==
    IF k = 0 THEN 0 ELSE SumInputLengths(k - 1) + batch_details.input_lengths[k]

\* C36: for every sequence of a batch built by build_batch_details,
\* process_batch_output reads the logit row at index (sum of the
\* input_lengths of the preceding sequences) + input_length - 1, and this
\* index lies in [0, total_tokens_in_step).
LogitRowInRange ==
    batch_i > 0 =>
        /\ logit_index = SumInputLengths(batch_i - 1) + batch_details.input_lengths[batch_i] - 1
        /\ 0 <= logit_index
        /\ logit_index < batch_details.total_tokens_in_step

(***************************************************************************)
(* Layout of the queue segments                                            *)
(***************************************************************************)
\* sizeof(RequestQueueControl) and sizeof(ResponseQueueControl): two 8-byte
\* atomics in a struct with alignas(64)
ControlBlockSize == 64

\* sizeof(RequestSlot), a multiple of its alignment 64
RequestSlotSize == 128

\* sizeof(ResponseDeltaSlot), a multiple of its alignment 64
ResponseSlotSize == 1408

\* REQUEST_QUEUE_SHM_SIZE and RESPONSE_QUEUE_SHM_SIZE, the size given to
\* ftruncate by create_shm_segment and to mmap by readers and writers
REQUEST_QUEUE_SHM_SIZE == NumSlots * RequestSlotSize

RESPONSE_QUEUE_SHM_SIZE == NumSlots * ResponseSlotSize

\* offset of the first byte after slot i: the slots start after the control
\* block
SlotEnd(slot_size, i) == ControlBlockSize + (i + 1) * slot_size

\* C37: each queue segment holds its control block and NUM_SLOTS slots: the
\* bytes of every slot that a producer or a consumer has taken, which start
\* at sizeof(control block) + i x sizeof(slot), lie inside the segment that
\* IPCManager created and that readers and writers map.
SlotsInsideSegment ==
    \A s \in Slots :
        /\ (RequestSlotWriters(s) # {} \/ RequestSlotRead(s)) =>
               SlotEnd(RequestSlotSize, s) <= REQUEST_QUEUE_SHM_SIZE
        /\ (ResponseSlotWriters(s) # {} \/ ResponseSlotRead(s)) =>
               SlotEnd(ResponseSlotSize, s) <= RESPONSE_QUEUE_SHM_SIZE

(***************************************************************************)
(* What ingest does with the sequences it pops                             *)
(***************************************************************************)
\* C38: every sequence that ingest_new_sequences pops from the input queue
\* is afterwards in running_sequences_ with status PREFILLING and has not
\* been destroyed at ingest, whatever sequence_id it carries (also the id
\* of a sequence already running), and running_sequences_ never has more
\* than max_num_seqs entries.
IngestKeepsEverySequence ==
    [][/\ \A o \in ingest_popped' \ ingest_popped :
             /\ \E id \in SeqIds : running_by_id'[id] = o
             /\ obj_status'[o] = "PREFILLING"
             /\ o \notin ingest_destroyed'
       /\ RunningSize(running_by_id') <= IngestMaxNumSeqs]_vars

(***************************************************************************)
(* The reader polling the request ring                                     *)
(***************************************************************************)
\* RequestReader::run_loop, lines 58-66: after the wait, with the stop flag
\* clear, process_incoming_requests begins (lines 212-213 load both indices)
\* whether the wait returned an event or timed out
ReaderProcessBegin ==
    /\ worker_pc["reader"] = "after_wait"
    /\ ~stop_flag_["reader"]
    /\ r_pc = "idle"
    /\ r_prod' = request_producer_idx
    /\ r_cons' = request_consumer_idx
    /\ r_pc' = "loop"
    /\ worker_pc' = [worker_pc EXCEPT !["reader"] = "processing"]
    /\ UNCHANGED <<request_producer_idx, request_consumer_idx, request_state, request_id, w_pc, w_ticket, w_spin, w_req, submits, raw_request_queue_, read_failures, rq_tickets, rq_timeouts, rq_outcome, rq_reads>>
    /\ UNCHANGED <<g_shutdown_requested, engine_pc, stop_flag_, kernel_event, sched_spin, at_stop>>
    /\ UNCHANGED <<poolVars, respVars, pageVars>>
    /\ UNCHANGED calcVars

\* RequestReader::run_loop, lines 68-72: process_incoming_requests has
\* returned; after the 100 us sleep the loop goes back to its test
ReaderProcessEnd ==
    /\ worker_pc["reader"] = "processing"
    /\ r_pc = "idle"
    /\ worker_pc' = [worker_pc EXCEPT !["reader"] = "loop_test"]
    /\ UNCHANGED <<g_shutdown_requested, engine_pc, stop_flag_, kernel_event, sched_spin, at_stop>>
    /\ UNCHANGED <<poolVars, ringVars, respVars, pageVars>>
    /\ UNCHANGED calcVars

\* a step of the reader thread in run_loop
ReaderThreadStep ==
    \/ LoopTest("reader")
    \/ ReaderEnterWait
    \/ ReaderWaitReturns
    \/ ReaderProcessBegin
    \/ ReaderCas
    \/ ReaderCopy
    \/ ReaderAdvance
    \/ ReaderProcessEnd

\* producers submitting while the reader thread runs its loop; no step
\* sets the kernel event (submit_request_to_engine has its
\* trigger_kernel_event call commented out) and nothing requests a stop
PollNext ==
    \/ EngineStartThreads
    \/ \E w \in Writers : SubmitTicket(w)
    \/ \E w \in Writers : SubmitCas(w)
    \/ \E w \in Writers : SubmitFill(w)
    \/ \E w \in Writers : SubmitPublish(w)
    \/ LoopTest("reader")
    \/ ReaderEnterWait
    \/ ReaderWaitReturns
    \/ ReaderProcessBegin
    \/ ReaderCas
    \/ ReaderCopy
    \/ ReaderAdvance
    \/ ReaderProcessEnd
    \/ PreprocessorPop

\* the threads are scheduled: the engine starts its workers, the reader
\* thread goes on through its loop, the preprocessor keeps popping and a
\* producer inside a call goes on
PollSpec ==
    /\ Init
    /\ [][PollNext]_vars
    /\ WF_vars(EngineStartThreads)
    /\ WF_vars(ReaderThreadStep)
    /\ WF_vars(PreprocessorPop)
    /\ \A w \in Writers : WF_vars(WriterStep(w))

\* C39: with no kernel event ever triggered and the stop flag clear, a
\* request that is published READY is eventually taken out of its slot by
\* the reader, which looks at the ring again after every wait timeout.
PolledWithoutEvent ==
    \A r \in ReqIds :
        (Published(r) /\ ~kernel_event /\ ~stop_flag_["reader"]) ~> (rq_outcome[r] \in {"consumed", "dropped"})

(***************************************************************************)
(* Progress of the free-stack operations                                   *)
(***************************************************************************)
\* thread t is in the CAS loop of pop_free_list or of push_free_list
InRetryLoop(t) == tpc[t] \in {"pop_read", "pop_cas", "push_link", "push_cas"}

\* the value of head_ that thread t last read and will pass to its CAS as
\* the expected value (current_head in pop, old_head in push)
Expected(t) == IF tpc[t] \in {"pop_read", "pop_cas"} THEN t_cur[t] ELSE t_old[t]

\* the step is a successful CAS of thread t: t leaves its loop
CasSucceeds(t) ==
    \/ tpc[t] = "pop_cas" /\ tpc'[t] = "pop_dec"
    \/ tpc[t] = "push_cas" /\ tpc'[t] = "push_inc"

\* the step is a failed CAS of thread t: t goes round its loop again
CasFails(t) ==
    \/ tpc[t] = "pop_cas" /\ tpc'[t] = "pop_read"
    \/ tpc[t] = "push_cas" /\ tpc'[t] = "push_link"

\* C40: a CAS on the free-stack head fails only because another thread's
\* allocate or free has changed the head since this thread read it, so an
\* operation running alone never retries.
CasFailsOnlyByInterference ==
    [][\A t \in Threads : CasFails(t) => head # Expected(t)]_vars

\* C40, amended: the operations are lock-free up to the spurious failures
\* of compare_exchange_weak.  A thread enters its loop, and leaves every
\* failed CAS, expecting the current head; the head changes only in a
\* successful CAS, which takes its thread out of the loop; and the head
\* comes to differ from what a thread in its loop expects only in a step
\* that is another thread's successful CAS.  So a CAS that finds the head
\* changed means another operation got through, and an operation running
\* alone retries only when its CAS fails spuriously.
CasFailsByInterferenceOrSpuriously ==
    [][\A t \in Threads :
         /\ (~InRetryLoop(t) /\ InRetryLoop(t)') => Expected(t)' = head'
         /\ CasFails(t) => Expected(t)' = head'
         /\ head' # head => \E u \in Threads : CasSucceeds(u)
         /\ (InRetryLoop(t) /\ InRetryLoop(t)' /\ Expected(t) = head /\ Expected(t)' # head')
              => \E u \in Threads \ {t} : CasSucceeds(u)]_vars

\* a thread is about to fail its CAS because another thread's CAS has just
\* changed the head
CasInterferenceWitness ==
    \E t \in Threads : \E u \in Threads \ {t} :
        /\ tpc[t] \in {"pop_cas", "push_cas"}
        /\ Expected(t) # head
        /\ tpc[u] \in {"pop_dec", "push_inc"}

====
